---------------------------- MODULE Spec2Model ----------------------------
(***************************************************************************)
(* LandscapeVision: the working session of App (src/unnamed/part_001), its *)
(* in-flight generation calls, the draft slot kept by storageService and   *)
(* the durable save of a lineage (src/components/SavedDesignsGallery.tsx,  *)
(* lines 194-375).                                                         *)
(*                                                                         *)
(* React state is modelled as the variables below.  A handler is one       *)
(* action: the setState calls of one synchronous block are batched and     *)
(* become visible together.  An async handler is cut at each await: the    *)
(* values it captured from its render travel with the pending              *)
(* continuation (calls, inits, save).                                      *)
(***************************************************************************)
EXTENDS Integers, Sequences, FiniteSets, TLC

(***************************************************************************)
(* Bounds of the model.                                                    *)
(***************************************************************************)
\* refinements of one session: handleRefine is offered below this length
MaxIter == 1
\* generation calls in flight
MaxCalls == 2
\* designs that the collection and the bucket hold objects of
MaxDesigns == 2
\* runs of init() in flight
MaxInits == 1
\* steps of a session over the gallery: handleRefine is offered below this
\* length in SpecLineage
MaxHistory == 3
\* committed values on the undo and redo stacks
MaxUndo == 3

(***************************************************************************)
(* Program constants.                                                      *)
(***************************************************************************)
MaxFileMB == 10
LegacyId == 0

VARIABLES
  appState,          \* AppState: "IDLE", "LOADING", "SUCCESS", "ERROR"
  selectedFile,      \* File | null
  imagePreview,      \* workingImage
  originalImageRef,  \* originalRoot
  generatedImage,    \* lastResult
  pastIterations,    \* sequence of DesignIteration
  prompt,            \* live value of useUndoRedo
  errorMsg,
  user,              \* useAuth().user: a user id or NoUser
  savedDesigns,      \* the gallery: sequence of SavedDesign
  isSaving,
  reader,            \* FileReader of processFile awaiting onload: <<>> or <<file>>
  calls,             \* generation calls in flight, in issue order
  inits,             \* runs of the mount effect's init() in flight
  save,              \* confirmSaveDesign/saveDesign in flight: <<>> or <<record>>
  draft,             \* idb-keyval slot DRAFT_KEY: <<>> or <<AutoSaveState>>
  db,                \* Firestore collection 'designs': id -> SavedDesign
  storage,           \* Firebase Storage: path -> content
  now,               \* Date.now()
  deletes,           \* handleDeleteDesign/deleteDesign in flight, in issue order
  history            \* useUndoRedo: baseline and the undo and redo stacks of prompt

vars == <<appState, selectedFile, imagePreview, originalImageRef, generatedImage,
          pastIterations, prompt, errorMsg, user, savedDesigns, isSaving, reader,
          calls, inits, save, draft, db, storage, now, deletes, history>>

sessionVars == <<appState, selectedFile, imagePreview, originalImageRef,
                 generatedImage, pastIterations, prompt, errorMsg>>

(***************************************************************************)
(* Artifact references (src/unnamed/part_000: image: string).  A string is *)
(* null, an inline data URL carrying its content, or a download URL of a   *)
(* storage path.                                                           *)
(***************************************************************************)
NoPath == [u |-> "", d |-> 0, t |-> "", i |-> 0]
Null == [k |-> "null", c |-> "", p |-> NoPath]
Inline(c) == [k |-> "inline", c |-> c, p |-> NoPath]
Url(path) == [k |-> "url", c |-> "", p |-> path]
Path(u, d, t, i) == [u |-> u, d |-> d, t |-> t, i |-> i]

\* imageString.startsWith('http')
StartsWithHttp(img) == img.k = "url"
\* image.includes('firebasestorage')
IncludesFirebaseStorage(img) == img.k = "url"
\* JavaScript truthiness of a string | null
Truthy(img) == img # Null

NoUser == ""
Users == {"u1"}
NoFile == [name |-> "", image |-> FALSE, mb |-> 0]
Files == {[name |-> "f1", image |-> TRUE, mb |-> 1],
          [name |-> "doc", image |-> FALSE, mb |-> 1],
          [name |-> "huge", image |-> TRUE, mb |-> 11]}
Results == {"r1", "r2"}

\* prompt.trim()
Trim(s) == IF s = " " THEN "" ELSE s

\* FileReader.readAsDataURL(file)
DataUrl(file) == Inline(file.name)

\* a slice that keeps the whole array
SliceNothing(s) == s

Last(s) == s[Len(s)]
\* Array.prototype.slice(0, -1)
SliceButLast(s) == SubSeq(s, 1, Len(s) - 1)

(***************************************************************************)
(* The view App renders (part_001 lines 479-526): which controls exist.    *)
(***************************************************************************)
View ==
  IF appState = "LOADING" THEN "loading"
  ELSE IF appState = "SUCCESS" /\ Truthy(generatedImage) /\ Truthy(imagePreview)
       THEN "result"
       ELSE "form"

(***************************************************************************)
(* storageService: the draft slot.  idb-keyval's set/del either take       *)
(* effect or reject; saveDraft/clearDraft swallow the rejection.           *)
(***************************************************************************)
SaveDraft(state, ok) == IF ok THEN <<state>> ELSE draft
\* a variant whose del never takes effect
ClearDraftNever(ok) == draft
ClearDraft(ok) == IF ok THEN <<>> ELSE draft
\* getDraft: undefined when absent or when the read rejects
GetDraft(ok) == IF ok THEN draft ELSE <<>>

AutoSaveState(p, ip, gi, pi, oir, st) ==
  [timestamp |-> now, prompt |-> p, imagePreview |-> ip, generatedImage |-> gi,
   pastIterations |-> pi, originalImageRef |-> oir, appState |-> st]

(***************************************************************************)
(* Mount effect (part_001 lines 60-87).  The closure of init() holds the   *)
(* selectedFile, imagePreview and prompt of the render that ran the        *)
(* effect.                                                                 *)
(***************************************************************************)
InitRun(u) ==
  [pc |-> IF u # NoUser THEN "designs" ELSE "draft",
   uid |-> u,
   clean |-> (selectedFile = NoFile /\ ~Truthy(imagePreview) /\ prompt = "")]

\* onAuthStateChanged -> setUser: the effect depends on [user]
AuthStateChanged(u) ==
  /\ u # user
  /\ Len(inits) < MaxInits
  /\ user' = u
  /\ inits' = Append(inits, InitRun(u))
  /\ savedDesigns' = IF u = NoUser THEN <<>> ELSE savedDesigns
  /\ UNCHANGED <<sessionVars, isSaving, reader, calls, save, draft, db, storage,
                 now, deletes, history>>

RemoveAt(s, i) == SubSeq(s, 1, i - 1) \o SubSeq(s, i + 1, Len(s))

(***************************************************************************)
(* crypto.randomUUID() returns an identifier that occurs nowhere else.     *)
(* The model takes the least identifiers that occur nowhere in the state:  *)
(* the program only ever compares identifiers that are present.            *)
(***************************************************************************)
IterationIds(iterations) == {iterations[i].id : i \in DOMAIN iterations}

DesignIds(design) == {design.id} \cup IterationIds(design.iterations)

UsedIds ==
  {LegacyId}
  \cup IterationIds(pastIterations)
  \cup UNION {IterationIds(calls[i].pastIterations) : i \in DOMAIN calls}
  \cup UNION {IterationIds(draft[i].pastIterations) : i \in DOMAIN draft}
  \cup UNION {DesignIds(savedDesigns[i]) : i \in DOMAIN savedDesigns}
  \cup UNION {DesignIds(save[i].design) : i \in DOMAIN save}
  \cup {deletes[i].id : i \in DOMAIN deletes}
  \cup UNION {DesignIds(db[x]) : x \in DOMAIN db}
  \cup UNION {{path.d, path.i} : path \in DOMAIN storage}

RECURSIVE LeastUnused(_, _, _)
LeastUnused(used, from, n) ==
  IF from \in used THEN LeastUnused(used, from + 1, n)
  ELSE IF n = 1 THEN from
  ELSE LeastUnused(used, from + 1, n - 1)

\* the n-th identifier drawn by one handler
RandomUUID(n) == LeastUnused(UsedIds, 1, n)

(***************************************************************************)
(* getSavedDesigns (SavedDesignsGallery.tsx lines 223-248): the caller's   *)
(* records, sorted newest first in memory.  Firestore returns them in an   *)
(* unspecified order and Array.prototype.sort is stable, so records with   *)
(* equal timestamps may come in any order.  A rejected query yields [].    *)
(***************************************************************************)
Owned(uid) == {db[id] : id \in {x \in DOMAIN db : db[x].userId = uid}}

NewestFirst(s) == \A i \in 1..(Len(s) - 1) : s[i].timestamp >= s[i + 1].timestamp

\* a variant that returns the records in the order of the store
GetSavedDesignsUnsorted(uid, ok) ==
  IF uid = NoUser \/ ~ok THEN {<<>>}
  ELSE {s \in [1..Cardinality(Owned(uid)) -> Owned(uid)] :
          \A i, j \in DOMAIN s : i # j => s[i] # s[j]}

GetSavedDesigns(uid, ok) ==
  IF uid = NoUser \/ ~ok THEN {<<>>}
  ELSE {s \in [1..Cardinality(Owned(uid)) -> Owned(uid)] :
          /\ \A i, j \in DOMAIN s : i # j => s[i] # s[j]
          /\ NewestFirst(s)}

InitDesignsLoaded(i, ok) ==
  /\ i \in DOMAIN inits
  /\ inits[i].pc = "designs"
  /\ \E designs \in GetSavedDesigns(inits[i].uid, ok) : savedDesigns' = designs
  /\ inits' = [inits EXCEPT ![i].pc = "draft"]
  /\ UNCHANGED <<sessionVars, user, isSaving, reader, calls, save, draft, db,
                 storage, now, deletes, history>>

\* a variant that restores the fields and forces appState to IDLE
InitDraftReadForcingIdle(i, ok) ==
  /\ i \in DOMAIN inits
  /\ inits[i].pc = "draft"
  /\ LET d == GetDraft(ok) IN
       IF d # <<>> /\ d[1].timestamp # 0 /\ inits[i].clean
       THEN /\ prompt' = d[1].prompt
            /\ imagePreview' = d[1].imagePreview
            /\ generatedImage' = d[1].generatedImage
            /\ pastIterations' = d[1].pastIterations
            /\ originalImageRef' = d[1].originalImageRef
            /\ appState' = "IDLE"
            /\ UNCHANGED <<selectedFile, errorMsg>>
       ELSE UNCHANGED sessionVars
  /\ inits' = RemoveAt(inits, i)
  /\ UNCHANGED <<user, savedDesigns, isSaving, reader, calls, save, draft, db,
                 storage, now, deletes, history>>

InitDraftRead(i, ok) ==
  /\ i \in DOMAIN inits
  /\ inits[i].pc = "draft"
  /\ LET d == GetDraft(ok) IN
       IF d # <<>> /\ d[1].timestamp # 0 /\ inits[i].clean
       THEN /\ prompt' = d[1].prompt
            /\ imagePreview' = d[1].imagePreview
            /\ generatedImage' = d[1].generatedImage
            /\ pastIterations' = d[1].pastIterations
            /\ originalImageRef' = d[1].originalImageRef
            /\ appState' = d[1].appState
            /\ UNCHANGED <<selectedFile, errorMsg>>
       ELSE UNCHANGED sessionVars
  /\ inits' = RemoveAt(inits, i)
  /\ UNCHANGED <<user, savedDesigns, isSaving, reader, calls, save, draft, db,
                 storage, now, deletes, history>>

(***************************************************************************)
(* Auto-save interval (part_001 lines 89-109).  The effect is re-created   *)
(* on every change of the fields it reads, so a tick sees the current      *)
(* render.                                                                 *)
(***************************************************************************)
\* a variant that writes on every tick
AutoSaveTickAlways(ok) ==
  /\ draft' = SaveDraft(AutoSaveState(prompt, imagePreview, generatedImage,
                                      pastIterations, originalImageRef, appState), ok)
  /\ UNCHANGED <<sessionVars, user, savedDesigns, isSaving, reader, calls, inits,
                 save, db, storage, now, deletes, history>>

AutoSaveTick(ok) ==
  /\ Truthy(imagePreview) \/ prompt # ""
  /\ draft' = SaveDraft(AutoSaveState(prompt, imagePreview, generatedImage,
                                      pastIterations, originalImageRef, appState), ok)
  /\ UNCHANGED <<sessionVars, user, savedDesigns, isSaving, reader, calls, inits,
                 save, db, storage, now, deletes, history>>

(***************************************************************************)
(* The prompt textarea, the suggestion chips and undo/redo (part_001 lines *)
(* 650-702), all rendered in the form view only: each sets the live value. *)
(***************************************************************************)
(***************************************************************************)
(* useUndoRedo('') (part_001 lines 40-50; ./hooks/useUndoRedo is imported  *)
(* in line 11).  prompt is the live value; history holds the committed     *)
(* baseline, the undo stack past and the redo stack future, the top of a   *)
(* stack being its last element.  The stacks are followed by the           *)
(* operations of the hook in SpecHistory; the other specifications do not  *)
(* look at them.                                                           *)
(***************************************************************************)
UseUndoRedo(initial) == [baseline |-> initial, past |-> <<>>, future |-> <<>>]

\* a variant that pushes on every call
CommitAlways(h, live) ==
  [baseline |-> live, past |-> Append(h.past, h.baseline), future |-> <<>>]

\* commit()
Commit(h, live) ==
  IF live # h.baseline
  THEN [baseline |-> live, past |-> Append(h.past, h.baseline), future |-> <<>>]
  ELSE h

\* undo(): the new history; the live value becomes its baseline
Undo(h) ==
  IF h.past = <<>> THEN h
  ELSE [baseline |-> h.past[Len(h.past)],
        past |-> SubSeq(h.past, 1, Len(h.past) - 1),
        future |-> Append(h.future, h.baseline)]

\* redo()
Redo(h) ==
  IF h.future = <<>> THEN h
  ELSE [baseline |-> h.future[Len(h.future)],
        past |-> Append(h.past, h.baseline),
        future |-> SubSeq(h.future, 1, Len(h.future) - 1)]

\* setAndSave(v)
SetAndSave(h, v) ==
  [baseline |-> v, past |-> Append(h.past, h.baseline), future |-> h.future]

\* lines 111-117: the debounce timer of the prompt fires
CommitTimerFires ==
  /\ Len(history.past) + Len(history.future) < MaxUndo
  /\ history' = Commit(history, prompt)
  /\ UNCHANGED <<sessionVars, user, savedDesigns, isSaving, reader, calls, inits,
                 save, draft, db, storage, now, deletes>>

\* lines 650-658: the undo button, enabled by canUndo
UndoClicked ==
  /\ View = "form"
  /\ history.past # <<>>
  /\ history' = Undo(history)
  /\ prompt' = history'.baseline
  /\ UNCHANGED <<appState, selectedFile, imagePreview, originalImageRef,
                 generatedImage, pastIterations, errorMsg, user, savedDesigns,
                 isSaving, reader, calls, inits, save, draft, db, storage, now,
                 deletes>>

\* lines 660-668: the redo button, enabled by canRedo
RedoClicked ==
  /\ View = "form"
  /\ history.future # <<>>
  /\ history' = Redo(history)
  /\ prompt' = history'.baseline
  /\ UNCHANGED <<appState, selectedFile, imagePreview, originalImageRef,
                 generatedImage, pastIterations, errorMsg, user, savedDesigns,
                 isSaving, reader, calls, inits, save, draft, db, storage, now,
                 deletes>>

\* line 695: a suggestion chip, setPromptAndSave(s)
SuggestionClicked(v) ==
  /\ View = "form"
  /\ Len(history.past) + Len(history.future) < MaxUndo
  /\ history' = SetAndSave(history, v)
  /\ prompt' = v
  /\ UNCHANGED <<appState, selectedFile, imagePreview, originalImageRef,
                 generatedImage, pastIterations, errorMsg, user, savedDesigns,
                 isSaving, reader, calls, inits, save, draft, db, storage, now,
                 deletes>>

\* line 681: onChange of the textarea, updateValue(v)
SetPrompt(v) ==
  /\ View = "form"
  /\ v # prompt
  /\ prompt' = v
  /\ UNCHANGED <<appState, selectedFile, imagePreview, originalImageRef,
                 generatedImage, pastIterations, errorMsg, user, savedDesigns,
                 isSaving, reader, calls, inits, save, draft, db, storage, now, deletes, history>>

(***************************************************************************)
(* processFile (part_001 lines 119-141): the drop zone exists only while   *)
(* imagePreview is empty; reader.onload runs later.                        *)
(***************************************************************************)
ProcessFile(file) ==
  /\ View = "form"
  /\ ~Truthy(imagePreview)
  /\ reader = <<>>
  /\ IF ~file.image
     THEN /\ errorMsg' = "Please upload a valid image file (JPG, PNG)."
          /\ UNCHANGED <<selectedFile, generatedImage, reader>>
     ELSE IF file.mb > MaxFileMB
     THEN /\ errorMsg' = "Image size should be less than 10MB."
          /\ UNCHANGED <<selectedFile, generatedImage, reader>>
     ELSE /\ selectedFile' = file
          /\ errorMsg' = ""
          /\ generatedImage' = Null
          /\ reader' = <<file>>
  /\ UNCHANGED <<appState, imagePreview, originalImageRef, pastIterations, prompt,
                 user, savedDesigns, isSaving, calls, inits, save, draft, db,
                 storage, now, deletes, history>>

ReaderOnLoad ==
  /\ reader # <<>>
  /\ imagePreview' = DataUrl(reader[1])
  /\ originalImageRef' = DataUrl(reader[1])
  /\ pastIterations' = <<>>
  /\ reader' = <<>>
  /\ UNCHANGED <<appState, selectedFile, generatedImage, prompt, errorMsg, user,
                 savedDesigns, isSaving, calls, inits, save, draft, db, storage,
                 now, deletes, history>>

\* a variant of the button that ignores the history
ClearImageAlwaysVisible == View = "form" /\ Truthy(imagePreview)

\* "Clear image" button (part_001 lines 607-622)
ClearImageVisible == View = "form" /\ Truthy(imagePreview) /\ Len(pastIterations) = 0

ClearImage ==
  /\ ClearImageVisible
  /\ imagePreview' = Null
  /\ originalImageRef' = Null
  /\ selectedFile' = NoFile
  /\ generatedImage' = Null
  /\ UNCHANGED <<appState, pastIterations, prompt, errorMsg, user, savedDesigns,
                 isSaving, reader, calls, inits, save, draft, db, storage, now, deletes, history>>

(***************************************************************************)
(* handleGenerate (part_001 lines 182-215).  The "Generate Vision" button  *)
(* is part of the form view and disabled by the same test as the early     *)
(* return.  The call keeps the prompt, imagePreview, pastIterations and    *)
(* originalImageRef of the render it was started from.  issuedIn and       *)
(* resetSince are history: the appState the call was started in, and       *)
(* whether handleReset ran while the call was in flight.                   *)
(***************************************************************************)
\* a variant of the page that shows the button in every view
GenerateButtonEverywhere == TRUE

GenerateButton == View = "form"

\* a variant that tests the prompt without trimming it
CanGenerateUntrimmed ==
  /\ selectedFile # NoFile \/ Truthy(imagePreview)
  /\ prompt # ""

\* line 184, and the disabled test of the button (line 709)
CanGenerate ==
  /\ selectedFile # NoFile \/ Truthy(imagePreview)
  /\ Trim(prompt) # ""

HandleGenerate ==
  /\ GenerateButton
  /\ CanGenerate
  /\ Len(calls) < MaxCalls
  /\ appState' = "LOADING"
  /\ errorMsg' = ""
  /\ calls' = Append(calls,
       [input |-> IF selectedFile # NoFile THEN DataUrl(selectedFile) ELSE imagePreview,
        prompt |-> prompt,
        imagePreview |-> imagePreview,
        pastIterations |-> pastIterations,
        originalImageRef |-> originalImageRef,
        issuedIn |-> appState,
        resetSince |-> FALSE])
  /\ UNCHANGED <<selectedFile, imagePreview, originalImageRef, generatedImage,
                 pastIterations, prompt, user, savedDesigns, isSaving, reader,
                 inits, save, draft, db, storage, now, deletes, history>>

\* generateLandscapeVisualization fetches a URL input (urlToBase64)
Fetchable(img) == img.k = "inline" \/ (img.k = "url" /\ img.p \in DOMAIN storage)

\* a variant whose saveDraft lets the rejection through to the catch of
\* handleGenerate
GenerationSucceedsUnlessDraftFails(i, r, ok) ==
  /\ i \in DOMAIN calls
  /\ Fetchable(calls[i].input)
  /\ generatedImage' = Inline(r)
  /\ appState' = IF ok THEN "SUCCESS" ELSE "ERROR"
  /\ errorMsg' = IF ok THEN errorMsg
                 ELSE "An unexpected error occurred while generating the vision."
  /\ draft' = SaveDraft(AutoSaveState(calls[i].prompt, calls[i].imagePreview,
                                      Inline(r), calls[i].pastIterations,
                                      calls[i].originalImageRef, "SUCCESS"), ok)
  /\ calls' = RemoveAt(calls, i)
  /\ UNCHANGED <<selectedFile, imagePreview, originalImageRef, pastIterations,
                 prompt, user, savedDesigns, isSaving, reader, inits, save, db,
                 storage, now, deletes, history>>

\* a variant without the write after the success
GenerationSucceedsWithoutDraft(i, r, ok) ==
  /\ i \in DOMAIN calls
  /\ Fetchable(calls[i].input)
  /\ generatedImage' = Inline(r)
  /\ appState' = "SUCCESS"
  /\ calls' = RemoveAt(calls, i)
  /\ UNCHANGED <<selectedFile, imagePreview, originalImageRef, pastIterations,
                 prompt, errorMsg, user, savedDesigns, isSaving, reader, inits,
                 save, draft, db, storage, now, deletes, history>>

GenerationSucceeds(i, r, ok) ==
  /\ i \in DOMAIN calls
  /\ Fetchable(calls[i].input)
  /\ generatedImage' = Inline(r)
  /\ appState' = "SUCCESS"
  /\ draft' = SaveDraft(AutoSaveState(calls[i].prompt, calls[i].imagePreview,
                                      Inline(r), calls[i].pastIterations,
                                      calls[i].originalImageRef, "SUCCESS"), ok)
  /\ calls' = RemoveAt(calls, i)
  /\ UNCHANGED <<selectedFile, imagePreview, originalImageRef, pastIterations,
                 prompt, errorMsg, user, savedDesigns, isSaving, reader, inits,
                 save, db, storage, now, deletes, history>>

GenerationFails(i) ==
  /\ i \in DOMAIN calls
  /\ errorMsg' = "An unexpected error occurred while generating the vision."
  /\ appState' = "ERROR"
  /\ calls' = RemoveAt(calls, i)
  /\ UNCHANGED <<selectedFile, imagePreview, originalImageRef, generatedImage,
                 pastIterations, prompt, user, savedDesigns, isSaving, reader,
                 inits, save, draft, db, storage, now, deletes, history>>

(***************************************************************************)
(* handleReset (part_001 lines 217-231): the header logo, in every view.   *)
(***************************************************************************)
HandleReset(ok) ==
  /\ appState' = "IDLE"
  /\ selectedFile' = NoFile
  /\ imagePreview' = Null
  /\ originalImageRef' = Null
  /\ generatedImage' = Null
  /\ pastIterations' = <<>>
  /\ prompt' = ""
  /\ errorMsg' = ""
  /\ draft' = ClearDraft(ok)
  /\ calls' = [i \in DOMAIN calls |-> [calls[i] EXCEPT !.resetSince = TRUE]]
  /\ UNCHANGED <<user, savedDesigns, isSaving, reader, inits, save, db, storage,
                 now, deletes, history>>

\* a variant that also clears the prompt
HandleRetryClearingPrompt ==
  /\ View = "result"
  /\ generatedImage' = Null
  /\ prompt' = ""
  /\ appState' = "IDLE"
  /\ UNCHANGED <<selectedFile, imagePreview, originalImageRef, pastIterations,
                 errorMsg, user, savedDesigns, isSaving, reader, calls, inits,
                 save, draft, db, storage, now, deletes, history>>

\* handleRetry (part_001 lines 233-238): a button of ResultComparison
HandleRetry ==
  /\ View = "result"
  /\ generatedImage' = Null
  /\ appState' = "IDLE"
  /\ UNCHANGED <<selectedFile, imagePreview, originalImageRef, pastIterations,
                 prompt, errorMsg, user, savedDesigns, isSaving, reader, calls,
                 inits, save, draft, db, storage, now, deletes, history>>

\* a variant that keeps the prompt of the step it commits
RefineKeepingPrompt ==
  /\ View = "result"
  /\ Truthy(generatedImage)
  /\ pastIterations' = Append(pastIterations,
       [id |-> RandomUUID(1), prompt |-> prompt, image |-> generatedImage,
        timestamp |-> now])
  /\ imagePreview' = generatedImage
  /\ generatedImage' = Null
  /\ selectedFile' = NoFile
  /\ appState' = "IDLE"
  /\ UNCHANGED <<prompt, originalImageRef, errorMsg, user, savedDesigns, isSaving,
                 reader, calls, inits, save, draft, db, storage, now, deletes, history>>

\* a variant that puts the committed step in front of the history
RefinePrepending ==
  /\ View = "result"
  /\ Truthy(generatedImage)
  /\ pastIterations' =
       <<[id |-> RandomUUID(1), prompt |-> prompt, image |-> generatedImage,
          timestamp |-> now]>> \o pastIterations
  /\ imagePreview' = generatedImage
  /\ generatedImage' = Null
  /\ selectedFile' = NoFile
  /\ prompt' = ""
  /\ appState' = "IDLE"
  /\ UNCHANGED <<originalImageRef, errorMsg, user, savedDesigns, isSaving, reader,
                 calls, inits, save, draft, db, storage, now, deletes, history>>

\* handleRefine (part_001 lines 240-265): a button of ResultComparison
Refine ==
  /\ View = "result"
  /\ Truthy(generatedImage)
  /\ pastIterations' = Append(pastIterations,
       [id |-> RandomUUID(1), prompt |-> prompt, image |-> generatedImage,
        timestamp |-> now])
  /\ imagePreview' = generatedImage
  /\ generatedImage' = Null
  /\ selectedFile' = NoFile
  /\ prompt' = ""
  /\ appState' = "IDLE"
  /\ UNCHANGED <<originalImageRef, errorMsg, user, savedDesigns, isSaving, reader,
                 calls, inits, save, draft, db, storage, now, deletes, history>>

\* handleRefine while the session has fewer than MaxIter steps
HandleRefine == Len(pastIterations) < MaxIter /\ Refine

(***************************************************************************)
(* handleLoadDesign / handleEditDesign (part_001 lines 332-404): the cards *)
(* of SavedDesignsGallery, rendered in every view while a user is signed   *)
(* in.                                                                     *)
(***************************************************************************)
Gallery == IF user = NoUser THEN {} ELSE {savedDesigns[i] : i \in DOMAIN savedDesigns}

\* a variant that always takes the fallback of lines 338-346
LoadIterationsAsLegacy(design) ==
  <<[id |-> LegacyId, prompt |-> design.prompt,
     image |-> design.generatedImage, timestamp |-> design.timestamp]>>

\* a variant without the fallback of lines 338-346
LoadIterationsStored(design) == design.iterations

\* lines 336-346: design.iterations || [], with the legacy fallback
LoadIterations(design) ==
  IF Len(design.iterations) = 0 /\ Truthy(design.generatedImage)
  THEN <<[id |-> LegacyId, prompt |-> design.prompt,
          image |-> design.generatedImage, timestamp |-> design.timestamp]>>
  ELSE design.iterations

\* a variant that always shows the root photo as the input
InputImageRoot(previousIterations, design) == design.originalImage

\* lines 356-358 and 387-389
InputImage(previousIterations, design) ==
  IF Len(previousIterations) > 0
  THEN previousIterations[Len(previousIterations)].image
  ELSE design.originalImage

\* lines 334-368: what the handler sets, from the record alone; the fallback
\* of lines 363-368 leaves pastIterations as it is
LoadedSession(design) ==
  LET iterations == LoadIterations(design) IN
    IF Len(iterations) > 0
    THEN [pastIterations |-> SliceButLast(iterations),
          imagePreview |-> InputImage(SliceButLast(iterations), design),
          generatedImage |-> Last(iterations).image,
          prompt |-> Last(iterations).prompt]
    ELSE [pastIterations |-> pastIterations,
          imagePreview |-> design.originalImage,
          generatedImage |-> design.generatedImage,
          prompt |-> design.prompt]

HandleLoadDesign(design) ==
  /\ design \in Gallery
  /\ originalImageRef' = design.originalImage
  /\ pastIterations' = LoadedSession(design).pastIterations
  /\ imagePreview' = LoadedSession(design).imagePreview
  /\ generatedImage' = LoadedSession(design).generatedImage
  /\ prompt' = LoadedSession(design).prompt
  /\ selectedFile' = NoFile
  /\ appState' = "SUCCESS"
  /\ UNCHANGED <<errorMsg, user, savedDesigns, isSaving, reader, calls, inits,
                 save, draft, db, storage, now, deletes, history>>

\* a variant that re-enters at the result of the last step: the whole
\* history, with the last step's image as the input
EditedSessionAtResult(design) ==
  IF Len(design.iterations) > 0
  THEN [pastIterations |-> design.iterations,
        imagePreview |-> Last(design.iterations).image,
        prompt |-> Last(design.iterations).prompt]
  ELSE [pastIterations |-> <<>>,
        imagePreview |-> design.originalImage,
        prompt |-> design.prompt]

\* lines 381-398: what handleEditDesign sets, from the record alone
EditedSession(design) ==
  IF Len(design.iterations) > 0
  THEN [pastIterations |-> SliceButLast(design.iterations),
        imagePreview |-> InputImage(SliceButLast(design.iterations), design),
        prompt |-> Last(design.iterations).prompt]
  ELSE [pastIterations |-> <<>>,
        imagePreview |-> design.originalImage,
        prompt |-> design.prompt]

HandleEditDesign(design) ==
  /\ design \in Gallery
  /\ originalImageRef' = design.originalImage
  /\ pastIterations' = EditedSession(design).pastIterations
  /\ imagePreview' = EditedSession(design).imagePreview
  /\ prompt' = EditedSession(design).prompt
  /\ generatedImage' = Null
  /\ selectedFile' = NoFile
  /\ appState' = "IDLE"
  /\ UNCHANGED <<errorMsg, user, savedDesigns, isSaving, reader, calls, inits,
                 save, draft, db, storage, now, deletes, history>>

(***************************************************************************)
(* uploadImageToStorage (SavedDesignsGallery.tsx lines 206-221).  A string *)
(* that is empty or already a URL is returned as it is; otherwise          *)
(* uploadString and then getDownloadURL run, and either may reject.        *)
(***************************************************************************)
UploadOutcomes == {"ok", "uploadStringRejects", "getDownloadURLRejects"}

\* a variant that returns every string as it is
NeedsUploadNever(imageString) == FALSE

\* a variant that uploads every non-empty string
NeedsUploadAlways(imageString) == Truthy(imageString)

NeedsUpload(imageString) == ~(~Truthy(imageString) \/ StartsWithHttp(imageString))

\* a variant whose catch resolves with the URL instead of throwing
UploadImageToStorageSwallowing(path, imageString, outcome) ==
  IF ~Truthy(imageString) \/ StartsWithHttp(imageString)
  THEN [ok |-> TRUE, url |-> imageString, stored |-> FALSE, issued |-> 0]
  ELSE [ok |-> TRUE, url |-> Url(path), stored |-> (outcome # "uploadStringRejects"),
        issued |-> 1]

UploadImageToStorage(path, imageString, outcome) ==
  IF ~NeedsUpload(imageString)
  THEN [ok |-> TRUE, url |-> imageString, stored |-> FALSE, issued |-> 0]
  ELSE IF outcome = "ok"
  THEN [ok |-> TRUE, url |-> Url(path), stored |-> TRUE, issued |-> 1]
  ELSE [ok |-> FALSE, url |-> Null, stored |-> (outcome = "getDownloadURLRejects"),
        issued |-> 1]

Stored(path, imageString, result) ==
  IF result.stored THEN (path :> imageString.c) ELSE <<>>

(***************************************************************************)
(* confirmSaveDesign (part_001 lines 284-330), the confirm button of the   *)
(* save dialog of the result view.  The "Save" button is disabled while    *)
(* isSaving.                                                               *)
(***************************************************************************)
\* a variant that records the input image as the step's image
CurrentIterationOfInput(id) ==
  [id |-> id, prompt |-> prompt, image |-> imagePreview, timestamp |-> now]

CurrentIteration(id) ==
  [id |-> id, prompt |-> prompt, image |-> generatedImage, timestamp |-> now]

\* a variant that saves the history without the current result
NewDesignOfHistory(iterId, designId) ==
  [id |-> designId,
   userId |-> user,
   timestamp |-> now,
   originalImage |-> IF Truthy(originalImageRef) THEN originalImageRef
                     ELSE imagePreview,
   generatedImage |-> generatedImage,
   prompt |-> prompt,
   iterations |-> pastIterations]

NewDesign(iterId, designId) ==
  [id |-> designId,
   userId |-> user,
   timestamp |-> now,
   originalImage |-> IF Truthy(originalImageRef) THEN originalImageRef
                     ELSE imagePreview,
   generatedImage |-> generatedImage,
   prompt |-> prompt,
   iterations |-> Append(pastIterations, CurrentIteration(iterId))]

\* the design identifiers under which a save has written anything
DesignsWritten == DOMAIN db \cup {path.d : path \in DOMAIN storage}

ConfirmSaveDesign ==
  /\ View = "result"
  /\ Truthy(generatedImage) /\ Truthy(imagePreview) /\ user # NoUser
  /\ ~isSaving
  /\ Cardinality(DesignsWritten) < MaxDesigns
  /\ isSaving' = TRUE
  /\ save' = <<[design |-> NewDesign(RandomUUID(1), RandomUUID(2)),
                uid |-> user,
                imagePreview |-> imagePreview,
                pc |-> "original",
                originalUrl |-> Null,
                generatedUrl |-> Null,
                processedIterations |-> <<>>,
                uploads |-> 0]>>
  /\ UNCHANGED <<sessionVars, user, savedDesigns, reader, calls, inits, draft, db,
                 storage, now, deletes, history>>

\* a variant that also empties the draft slot
SaveFailedClearingDraft ==
  /\ isSaving' = FALSE
  /\ errorMsg' = "Failed to save. Storage limit reached."
  /\ save' = <<>>
  /\ draft' = <<>>
  /\ UNCHANGED <<appState, selectedFile, imagePreview, originalImageRef,
                 generatedImage, pastIterations, prompt, user, savedDesigns,
                 reader, calls, inits, db, now, deletes, history>>

\* the else branch of confirmSaveDesign (lines 324-329), run when saveDesign
\* returned false
SaveFailed ==
  /\ isSaving' = FALSE
  /\ errorMsg' = "Failed to save. Storage limit reached."
  /\ save' = <<>>
  /\ UNCHANGED <<appState, selectedFile, imagePreview, originalImageRef,
                 generatedImage, pastIterations, prompt, user, savedDesigns,
                 reader, calls, inits, draft, db, now, deletes, history>>

SaveContinues(next) ==
  /\ save' = <<next>>
  /\ UNCHANGED <<sessionVars, user, savedDesigns, isSaving, reader, calls, inits,
                 draft, db, now, deletes, history>>

(***************************************************************************)
(* saveDesign (SavedDesignsGallery.tsx lines 250-296), one step per await. *)
(***************************************************************************)
DesignPath(s, t, i) == Path(s.uid, s.design.id, t, i)

\* 1. lines 253-256
SaveUploadOriginal(outcome) ==
  /\ save # <<>>
  /\ save[1].pc = "original"
  /\ LET s == save[1]
         path == DesignPath(s, "original", 0)
         r == UploadImageToStorage(path, s.design.originalImage, outcome)
     IN /\ storage' = Stored(path, s.design.originalImage, r) @@ storage
        /\ IF r.ok
           THEN SaveContinues([s EXCEPT !.pc = "generated", !.originalUrl = r.url,
                                        !.uploads = @ + r.issued])
           ELSE SaveFailed

\* a variant that takes the last iteration's object for the generated image
\* instead of uploading it a second time
SaveUploadGeneratedShared(outcome) ==
  /\ save # <<>>
  /\ save[1].pc = "generated"
  /\ LET s == save[1]
         last == s.design.iterations[Len(s.design.iterations)]
     IN /\ storage' = storage
        /\ SaveContinues([s EXCEPT !.pc = "iterations",
                                   !.generatedUrl =
                                      IF NeedsUpload(s.design.generatedImage)
                                      THEN Url(Path(s.uid, s.design.id, "iteration",
                                                    last.id))
                                      ELSE s.design.generatedImage])

\* 2. lines 259-262
SaveUploadGenerated(outcome) ==
  /\ save # <<>>
  /\ save[1].pc = "generated"
  /\ LET s == save[1]
         path == DesignPath(s, "generated", 0)
         r == UploadImageToStorage(path, s.design.generatedImage, outcome)
     IN /\ storage' = Stored(path, s.design.generatedImage, r) @@ storage
        /\ IF r.ok
           THEN SaveContinues([s EXCEPT !.pc = "iterations", !.generatedUrl = r.url,
                                        !.uploads = @ + r.issued])
           ELSE SaveFailed

RECURSIVE StoredAll(_, _, _)
StoredAll(s, results, n) ==
  IF n = 0 THEN <<>>
  ELSE Stored(DesignPath(s, "iteration", s.design.iterations[n].id),
              s.design.iterations[n].image, results[n])
       @@ StoredAll(s, results, n - 1)

RECURSIVE Sum(_, _)
Sum(results, n) == IF n = 0 THEN 0 ELSE results[n].issued + Sum(results, n - 1)

\* the number of uploads the join of step 3 waits for
SaveLen == IF save = <<>> THEN 0 ELSE Len(save[1].design.iterations)

\* 3. lines 266-277: Promise.all over the iterations; every upload is issued,
\* the first rejection rejects the join
SaveUploadIterations(outcomes) ==
  /\ save # <<>>
  /\ save[1].pc = "iterations"
  /\ DOMAIN outcomes = DOMAIN save[1].design.iterations
  /\ LET s == save[1]
         iters == s.design.iterations
         results == [n \in DOMAIN iters |->
                       UploadImageToStorage(DesignPath(s, "iteration", iters[n].id),
                                            iters[n].image, outcomes[n])]
     IN /\ storage' = StoredAll(s, results, Len(iters)) @@ storage
        /\ IF \A n \in DOMAIN iters : results[n].ok
           THEN SaveContinues(
                  [s EXCEPT !.pc = "setDoc",
                            !.processedIterations =
                               [n \in DOMAIN iters |->
                                  [iters[n] EXCEPT !.image = results[n].url]],
                            !.uploads = @ + Sum(results, Len(iters))])
           ELSE SaveFailed

\* 4. lines 280-286
DesignToSave(s) ==
  [s.design EXCEPT !.userId = s.uid,
                   !.originalImage = s.originalUrl,
                   !.generatedImage = s.generatedUrl,
                   !.iterations = s.processedIterations]

\* 5. line 289, then the return to confirmSaveDesign, which awaits
\* getSavedDesigns (line 314)
\* a variant that writes the record over one of the collection
SaveSetDocOverwriting(ok) ==
  /\ save # <<>>
  /\ save[1].pc = "setDoc"
  /\ IF ok
     THEN /\ db' = [x \in DOMAIN db |->
                      IF x = CHOOSE y \in DOMAIN db : TRUE
                      THEN DesignToSave(save[1]) ELSE db[x]]
          /\ save' = <<[save[1] EXCEPT !.pc = "refresh"]>>
          /\ UNCHANGED <<sessionVars, user, savedDesigns, isSaving, reader, calls,
                         inits, draft, storage, now, deletes, history>>
     ELSE /\ SaveFailed
          /\ UNCHANGED storage

SaveSetDoc(ok) ==
  /\ save # <<>>
  /\ save[1].pc = "setDoc"
  /\ IF ok
     THEN /\ db' = (save[1].design.id :> DesignToSave(save[1])) @@ db
          /\ save' = <<[save[1] EXCEPT !.pc = "refresh"]>>
          /\ UNCHANGED <<sessionVars, user, savedDesigns, isSaving, reader, calls,
                         inits, draft, storage, now, deletes, history>>
     ELSE /\ SaveFailed
          /\ UNCHANGED storage

\* confirmSaveDesign lines 314-318: the refreshed gallery, then clearDraft
SaveRefreshed(ok, okClear) ==
  /\ save # <<>>
  /\ save[1].pc = "refresh"
  /\ \E designs \in GetSavedDesigns(save[1].uid, ok) : savedDesigns' = designs
  /\ draft' = ClearDraft(okClear)
  /\ save' = <<[save[1] EXCEPT !.pc = "closing"]>>
  /\ UNCHANGED <<sessionVars, user, isSaving, reader, calls, inits, db, storage,
                 now, deletes, history>>

\* confirmSaveDesign lines 320-323: setTimeout(..., 500)
SaveDialogClosed ==
  /\ save # <<>>
  /\ save[1].pc = "closing"
  /\ isSaving' = FALSE
  /\ save' = <<>>
  /\ UNCHANGED <<sessionVars, user, savedDesigns, reader, calls, inits, draft, db,
                 storage, now, deletes, history>>

(***************************************************************************)
(* handleDeleteDesign (src/unnamed/part_001 lines 406-412) and             *)
(* deleteDesign (SavedDesignsGallery.tsx lines 298-349), cut at their      *)
(* awaits: getDoc, the join of the storage deletes, deleteDoc and the      *)
(* final getSavedDesigns.  The catch of deleteDesign returns [] and the    *)
(* handler puts whatever is returned into the gallery.                     *)
(***************************************************************************)
\* deleteObject of a path: the codes it can settle with
DeleteObjectOutcomes(path) ==
  IF path \in DOMAIN storage THEN {"ok", "storage/unauthorized"}
  ELSE {"storage/object-not-found", "storage/unauthorized"}

\* a variant that calls safeDelete for every artifact that is set
CleanupPathsOfAll(design, id, userId) ==
  (IF Truthy(design.originalImage)
   THEN {Path(userId, id, "original", 0)} ELSE {})
  \cup (IF Truthy(design.generatedImage)
        THEN {Path(userId, id, "generated", 0)} ELSE {})
  \cup {Path(userId, id, "iteration", design.iterations[k].id) :
          k \in {j \in DOMAIN design.iterations :
                   Truthy(design.iterations[j].image)}}

\* lines 318-337: the paths safeDelete is called with
CleanupPaths(design, id, userId) ==
  (IF Truthy(design.originalImage) /\ IncludesFirebaseStorage(design.originalImage)
   THEN {Path(userId, id, "original", 0)} ELSE {})
  \cup (IF Truthy(design.generatedImage)
           /\ IncludesFirebaseStorage(design.generatedImage)
        THEN {Path(userId, id, "generated", 0)} ELSE {})
  \cup {Path(userId, id, "iteration", design.iterations[k].id) :
          k \in {j \in DOMAIN design.iterations :
                   /\ Truthy(design.iterations[j].image)
                   /\ IncludesFirebaseStorage(design.iterations[j].image)}}

\* lines 407-409: the button of a card, confirmed; getDoc is on its way
HandleDeleteDesign(id) ==
  /\ user # NoUser
  /\ id \in {design.id : design \in Gallery}
  /\ deletes' = Append(deletes, [id |-> id, uid |-> user, pc |-> "getDoc",
                                  issued |-> {}])
  /\ UNCHANGED <<sessionVars, user, savedDesigns, isSaving, reader, calls, inits,
                 save, draft, db, storage, now, history>>

\* lines 345-348 and 409-410: deleteDesign returns and the handler replaces
\* the gallery
DeleteReturns(i, updated) ==
  /\ savedDesigns' = updated
  /\ deletes' = RemoveAt(deletes, i)

\* lines 301-339: getDoc settles; for a record that exists the storage
\* deletes are issued, for one that does not deleteDoc is
DeleteGotDoc(i, ok) ==
  /\ i \in DOMAIN deletes
  /\ deletes[i].pc = "getDoc"
  /\ IF ~ok THEN DeleteReturns(i, <<>>)
     ELSE /\ deletes' =
               IF deletes[i].id \in DOMAIN db
               THEN [deletes EXCEPT
                       ![i].pc = "cleanup",
                       ![i].issued = CleanupPaths(db[deletes[i].id], deletes[i].id,
                                                  deletes[i].uid)]
               ELSE [deletes EXCEPT ![i].pc = "deleteDoc"]
          /\ savedDesigns' = savedDesigns
  /\ UNCHANGED <<sessionVars, user, isSaving, reader, calls, inits, save, draft,
                 db, storage, now, history>>

\* a variant whose safeDelete lets every error but not-found through
DeleteCleanedUpAborting(i, outcomes) ==
  /\ i \in DOMAIN deletes
  /\ deletes[i].pc = "cleanup"
  /\ outcomes \in [deletes[i].issued -> {"ok", "storage/object-not-found",
                                          "storage/unauthorized"}]
  /\ \A path \in deletes[i].issued : outcomes[path] \in DeleteObjectOutcomes(path)
  /\ storage' = [path \in {q \in DOMAIN storage :
                              ~(q \in deletes[i].issued /\ outcomes[q] = "ok")}
                   |-> storage[path]]
  /\ IF \E path \in deletes[i].issued : outcomes[path] = "storage/unauthorized"
     THEN DeleteReturns(i, <<>>)
     ELSE /\ deletes' = [deletes EXCEPT ![i].pc = "deleteDoc"]
          /\ savedDesigns' = savedDesigns
  /\ UNCHANGED <<sessionVars, user, isSaving, reader, calls, inits, save,
                 draft, db, now, history>>

\* lines 311-317 and 339: Promise.all over the safeDelete calls; each call
\* settles on its own and its catch swallows every rejection, so the join
\* resolves and deleteDoc is issued
DeleteCleanedUp(i, outcomes) ==
  /\ i \in DOMAIN deletes
  /\ deletes[i].pc = "cleanup"
  /\ outcomes \in [deletes[i].issued -> {"ok", "storage/object-not-found",
                                          "storage/unauthorized"}]
  /\ \A path \in deletes[i].issued : outcomes[path] \in DeleteObjectOutcomes(path)
  /\ storage' = [path \in {q \in DOMAIN storage :
                              ~(q \in deletes[i].issued /\ outcomes[q] = "ok")}
                   |-> storage[path]]
  /\ deletes' = [deletes EXCEPT ![i].pc = "deleteDoc"]
  /\ UNCHANGED <<sessionVars, user, savedDesigns, isSaving, reader, calls, inits,
                 save, draft, db, now, history>>

\* line 343: deleteDoc settles; getSavedDesigns is issued, or the catch
\* returns
DeleteDocSettled(i, ok) ==
  /\ i \in DOMAIN deletes
  /\ deletes[i].pc = "deleteDoc"
  /\ IF ok
     THEN /\ db' = [x \in DOMAIN db \ {deletes[i].id} |-> db[x]]
          /\ deletes' = [deletes EXCEPT ![i].pc = "refresh"]
          /\ savedDesigns' = savedDesigns
     ELSE /\ db' = db
          /\ DeleteReturns(i, <<>>)
  /\ UNCHANGED <<sessionVars, user, isSaving, reader, calls, inits, save, draft,
                 storage, now, history>>

\* lines 346 and 410: getSavedDesigns settles and its list becomes the
\* gallery
DeleteRefreshed(i, ok) ==
  /\ i \in DOMAIN deletes
  /\ deletes[i].pc = "refresh"
  /\ \E designs \in GetSavedDesigns(deletes[i].uid, ok) : DeleteReturns(i, designs)
  /\ UNCHANGED <<sessionVars, user, isSaving, reader, calls, inits, save, draft,
                 db, storage, now, history>>

(***************************************************************************)
(* A page reload: the in-memory state starts over, the draft slot and the  *)
(* remote stores stay.                                                     *)
(***************************************************************************)
MountInit == <<[pc |-> "draft", uid |-> NoUser, clean |-> TRUE]>>

Fresh ==
  /\ appState = "IDLE"
  /\ selectedFile = NoFile
  /\ imagePreview = Null
  /\ originalImageRef = Null
  /\ generatedImage = Null
  /\ pastIterations = <<>>
  /\ prompt = ""
  /\ errorMsg = ""
  /\ user = NoUser
  /\ savedDesigns = <<>>
  /\ isSaving = FALSE
  /\ reader = <<>>
  /\ calls = <<>>
  /\ inits = MountInit
  /\ save = <<>>

Reload ==
  /\ ~Fresh
  /\ appState' = "IDLE"
  /\ selectedFile' = NoFile
  /\ imagePreview' = Null
  /\ originalImageRef' = Null
  /\ generatedImage' = Null
  /\ pastIterations' = <<>>
  /\ prompt' = ""
  /\ errorMsg' = ""
  /\ user' = NoUser
  /\ savedDesigns' = <<>>
  /\ isSaving' = FALSE
  /\ reader' = <<>>
  /\ calls' = <<>>
  /\ inits' = MountInit
  /\ save' = <<>>
  /\ deletes' = <<>>
  /\ history' = UseUndoRedo("")
  /\ UNCHANGED <<draft, db, storage, now, history>>

(***************************************************************************)
(* A lineage of three steps as an earlier session's saveDesign committed it. *)
(***************************************************************************)
StoredIteration(designId, id, p) ==
  [id |-> id, prompt |-> p, image |-> Url(Path("u1", designId, "iteration", id)),
   timestamp |-> 1]

StoredDesign(designId, iterations) ==
  [id |-> designId,
   userId |-> "u1",
   timestamp |-> 1,
   originalImage |-> Url(Path("u1", designId, "original", 0)),
   generatedImage |-> Url(Path("u1", designId, "generated", 0)),
   prompt |-> iterations[Len(iterations)].prompt,
   iterations |-> iterations]

EarlierDb ==
  (4 :> StoredDesign(4, <<StoredIteration(4, 1, "p"), StoredIteration(4, 2, "q"),
                          StoredIteration(4, 3, "p")>>))

EarlierDesign == EarlierDb[4]

EarlierStorage ==
  (Path("u1", 4, "original", 0) :> "f1")
  @@ (Path("u1", 4, "generated", 0) :> "r1")
  @@ (Path("u1", 4, "iteration", 1) :> "r1")
  @@ (Path("u1", 4, "iteration", 2) :> "r2")
  @@ (Path("u1", 4, "iteration", 3) :> "r1")

(***************************************************************************)
(* The inputs of the environment.                                          *)
(***************************************************************************)
Photo == [name |-> "f1", image |-> TRUE, mb |-> 1]

SessionPrompts == {"", "p"}
GenPrompts == {"", " ", "p"}
SavePrompts == {"p", "q"}

\* localStorage works or throws (private mode, quota)
DraftSlot == BOOLEAN
DraftSlotThrows == {FALSE}

(***************************************************************************)
(* Spec: the working session from the mount of the page on: sign-in and    *)
(* the init effect with its draft restore, file selection, generation,     *)
(* refinement, reset and the gallery over the lineage of an earlier save.  *)
(* A generation call is started here when none is pending; overlapping     *)
(* calls are the subject of SpecGen, the durable save of SpecSave.         *)
(***************************************************************************)
Init ==
  /\ Fresh
  /\ draft = <<>>
  /\ db = EarlierDb
  /\ storage = EarlierStorage
  /\ now = 1
  /\ deletes = <<>>
  /\ history = UseUndoRedo("")

Next ==
  \/ \E u \in Users \cup {NoUser} : AuthStateChanged(u)
  \/ \E i \in DOMAIN inits, ok \in BOOLEAN : InitDesignsLoaded(i, ok)
  \/ \E i \in DOMAIN inits, ok \in DraftSlot : InitDraftRead(i, ok)
  \/ \E v \in SessionPrompts : SetPrompt(v)
  \/ \E file \in Files : ProcessFile(file)
  \/ ReaderOnLoad
  \/ ClearImage
  \/ (calls = <<>> /\ HandleGenerate)
  \/ \E i \in DOMAIN calls, ok \in DraftSlot : GenerationSucceeds(i, "r1", ok)
  \/ \E i \in DOMAIN calls : GenerationFails(i)
  \/ \E ok \in DraftSlot : HandleReset(ok)
  \/ HandleRetry
  \/ HandleRefine
  \/ \E design \in Gallery : HandleLoadDesign(design)
  \/ \E design \in Gallery : HandleEditDesign(design)

Spec == Init /\ [][Next]_vars

(***************************************************************************)
(* SpecGen: generation calls that overlap with each other and with reset,  *)
(* load, edit and file selection.  The user is signed in and the gallery   *)
(* is loaded; the draft slot throws, so the session is all that changes.   *)
(***************************************************************************)
InitGen ==
  /\ appState = "IDLE"
  /\ selectedFile = NoFile
  /\ imagePreview = Null
  /\ originalImageRef = Null
  /\ generatedImage = Null
  /\ pastIterations = <<>>
  /\ prompt = ""
  /\ errorMsg = ""
  /\ user = "u1"
  /\ savedDesigns = <<EarlierDesign>>
  /\ isSaving = FALSE
  /\ reader = <<>>
  /\ calls = <<>>
  /\ inits = <<>>
  /\ save = <<>>
  /\ draft = <<>>
  /\ db = EarlierDb
  /\ storage = EarlierStorage
  /\ now = 1
  /\ deletes = <<>>
  /\ history = UseUndoRedo("")

NextGen ==
  \/ \E v \in GenPrompts : SetPrompt(v)
  \/ ProcessFile(Photo)
  \/ ReaderOnLoad
  \/ ClearImage
  \/ HandleGenerate
  \/ \E i \in DOMAIN calls, r \in Results, ok \in DraftSlotThrows :
       GenerationSucceeds(i, r, ok)
  \/ \E i \in DOMAIN calls : GenerationFails(i)
  \/ \E ok \in DraftSlotThrows : HandleReset(ok)
  \/ HandleRetry
  \/ HandleRefine
  \/ \E design \in Gallery : HandleLoadDesign(design)
  \/ \E design \in Gallery : HandleEditDesign(design)

SpecGen == InitGen /\ [][NextGen]_vars

(***************************************************************************)
(* SpecSave: the durable save of sessions built by generate and refine or  *)
(* loaded from the gallery, and their reconstruction from the gallery.  It *)
(* starts signed in with a photo selected, over the lineage of an earlier  *)
(* save.  Calls do not overlap and the draft slot throws.                  *)
(***************************************************************************)
InitSave ==
  /\ appState = "IDLE"
  /\ selectedFile = Photo
  /\ imagePreview = DataUrl(Photo)
  /\ originalImageRef = DataUrl(Photo)
  /\ generatedImage = Null
  /\ pastIterations = <<>>
  /\ prompt = ""
  /\ errorMsg = ""
  /\ user = "u1"
  /\ savedDesigns = <<EarlierDesign>>
  /\ isSaving = FALSE
  /\ reader = <<>>
  /\ calls = <<>>
  /\ inits = <<>>
  /\ save = <<>>
  /\ draft = <<>>
  /\ db = EarlierDb
  /\ storage = EarlierStorage
  /\ now = 1
  /\ deletes = <<>>
  /\ history = UseUndoRedo("")

NextSave ==
  \/ \E v \in SavePrompts : SetPrompt(v)
  \/ (calls = <<>> /\ HandleGenerate)
  \/ \E i \in DOMAIN calls, r \in Results, ok \in DraftSlotThrows :
       GenerationSucceeds(i, r, ok)
  \/ HandleRefine
  \/ \E design \in Gallery : HandleLoadDesign(design)
  \/ \E design \in Gallery : HandleEditDesign(design)
  \/ ConfirmSaveDesign
  \/ \E outcome \in UploadOutcomes : SaveUploadOriginal(outcome)
  \/ \E outcome \in UploadOutcomes : SaveUploadGenerated(outcome)
  \/ \E outcomes \in [1..SaveLen -> UploadOutcomes] : SaveUploadIterations(outcomes)
  \/ \E ok \in BOOLEAN : SaveSetDoc(ok)
  \/ \E ok \in BOOLEAN, okClear \in BOOLEAN : SaveRefreshed(ok, okClear)
  \/ SaveDialogClosed

SpecSave == InitSave /\ [][NextSave]_vars

(***************************************************************************)
(* Records of the collection that saveDesign of this version does not      *)
(* write.  getSavedDesigns (SavedDesignsGallery.tsx lines 237-239) hands   *)
(* doc.data() over as it is: a record saved before per-step history        *)
(* existed has no iterations, and nothing validates that a record has a    *)
(* generatedImage.  design.iterations || [] reads an absent field as [].   *)
(***************************************************************************)
LegacyDesign ==
  [id |-> 5,
   userId |-> "u1",
   timestamp |-> 1,
   originalImage |-> Url(Path("u1", 5, "original", 0)),
   generatedImage |-> Url(Path("u1", 5, "generated", 0)),
   prompt |-> "q",
   iterations |-> <<>>]

DegenerateDesign ==
  [id |-> 6,
   userId |-> "u1",
   timestamp |-> 1,
   originalImage |-> Url(Path("u1", 6, "original", 0)),
   generatedImage |-> Null,
   prompt |-> "q",
   iterations |-> <<>>]

LineageDb == EarlierDb @@ (5 :> LegacyDesign) @@ (6 :> DegenerateDesign)

LineageStorage ==
  EarlierStorage
  @@ (Path("u1", 5, "original", 0) :> "f1")
  @@ (Path("u1", 5, "generated", 0) :> "r2")
  @@ (Path("u1", 6, "original", 0) :> "f1")

(***************************************************************************)
(* SpecLineage: sessions over a gallery of a three-step lineage, a legacy  *)
(* record and a record without a result: reconstruction for viewing and    *)
(* for editing from any earlier session, refinement on top of a loaded     *)
(* history, retry, reset and file selection.  Calls do not overlap and the *)
(* draft slot throws.                                                      *)
(***************************************************************************)
InitLineage ==
  /\ appState = "IDLE"
  /\ selectedFile = NoFile
  /\ imagePreview = Null
  /\ originalImageRef = Null
  /\ generatedImage = Null
  /\ pastIterations = <<>>
  /\ prompt = ""
  /\ errorMsg = ""
  /\ user = "u1"
  /\ savedDesigns = <<EarlierDesign, LegacyDesign, DegenerateDesign>>
  /\ isSaving = FALSE
  /\ reader = <<>>
  /\ calls = <<>>
  /\ inits = <<>>
  /\ save = <<>>
  /\ draft = <<>>
  /\ db = LineageDb
  /\ storage = LineageStorage
  /\ now = 1
  /\ deletes = <<>>
  /\ history = UseUndoRedo("")

NextLineage ==
  \/ \E v \in SessionPrompts : SetPrompt(v)
  \/ ProcessFile(Photo)
  \/ ReaderOnLoad
  \/ ClearImage
  \/ (calls = <<>> /\ HandleGenerate)
  \/ \E i \in DOMAIN calls, ok \in DraftSlotThrows : GenerationSucceeds(i, "r1", ok)
  \/ \E i \in DOMAIN calls : GenerationFails(i)
  \/ \E ok \in DraftSlotThrows : HandleReset(ok)
  \/ HandleRetry
  \/ (Len(pastIterations) < MaxHistory /\ Refine)
  \/ \E design \in Gallery : HandleLoadDesign(design)
  \/ \E design \in Gallery : HandleEditDesign(design)

SpecLineage == InitLineage /\ [][NextLineage]_vars

(***************************************************************************)
(* SpecStart: the start of the page over a draft slot that an earlier run  *)
(* of the page left behind: nothing, or a snapshot written by the          *)
(* auto-save tick or by handleGenerate after a success.  The mount effect  *)
(* and its re-run on sign-in race with the prompt field, file selection,   *)
(* reset and the gallery.                                                  *)
(***************************************************************************)
\* the step an earlier session refined before its tick
StartIteration ==
  [id |-> 5, prompt |-> "p", image |-> Inline("r1"), timestamp |-> 1]

\* what lines 93-103 and 199-207 write (timestamp: Date.now() of that run)
StartDrafts ==
  {<<>>,
   \* a tick with a prompt only
   <<AutoSaveState("p", Null, Null, <<>>, Null, "IDLE")>>,
   \* a tick while the call was pending
   <<AutoSaveState("p", DataUrl(Photo), Null, <<>>, DataUrl(Photo), "LOADING")>>,
   \* the write after a success
   <<AutoSaveState("p", DataUrl(Photo), Inline("r1"), <<>>, DataUrl(Photo),
                   "SUCCESS")>>,
   \* a tick after the call failed
   <<AutoSaveState("p", DataUrl(Photo), Null, <<>>, DataUrl(Photo), "ERROR")>>,
   \* a tick after a refine
   <<AutoSaveState("", Inline("r1"), Null, <<StartIteration>>, DataUrl(Photo),
                   "IDLE")>>}

InitStart ==
  /\ now = 1
  /\ deletes = <<>>
  /\ history = UseUndoRedo("")
  /\ Fresh
  /\ draft \in StartDrafts
  /\ db = EarlierDb
  /\ storage = EarlierStorage

NextStart ==
  \/ \E u \in Users \cup {NoUser} : AuthStateChanged(u)
  \/ \E i \in DOMAIN inits, ok \in BOOLEAN : InitDesignsLoaded(i, ok)
  \/ \E i \in DOMAIN inits, ok \in DraftSlot : InitDraftRead(i, ok)
  \/ \E v \in SessionPrompts : SetPrompt(v)
  \/ ProcessFile(Photo)
  \/ ReaderOnLoad
  \/ ClearImage
  \/ \E ok \in DraftSlot : HandleReset(ok)
  \/ \E design \in Gallery : HandleLoadDesign(design)
  \/ \E design \in Gallery : HandleEditDesign(design)

SpecStart == InitStart /\ [][NextStart]_vars

(***************************************************************************)
(* SpecDraft: the draft slot over the life of a session: the read at the   *)
(* start of the page, the auto-save tick, the write after a successful     *)
(* generation, and the deletes of reset and of a durable save.  The page   *)
(* starts over a slot that an earlier run left behind, the user signs in,  *)
(* and every operation of the slot may reject.  Calls do not overlap, the  *)
(* cards of the gallery are left alone, and a save fails on the upload of  *)
(* its original or not at all.                                             *)
(***************************************************************************)
\* the slot at the start: empty, or the tick after a refine
DraftsLeftBehind ==
  {d \in StartDrafts : d = <<>> \/ d[1].pastIterations # <<>>}

InitDraft ==
  /\ now = 1
  /\ deletes = <<>>
  /\ history = UseUndoRedo("")
  /\ Fresh
  /\ draft \in DraftsLeftBehind
  /\ db = EarlierDb
  /\ storage = EarlierStorage

NextDraft ==
  \/ \E u \in Users : AuthStateChanged(u)
  \/ \E i \in DOMAIN inits : InitDesignsLoaded(i, TRUE)
  \/ \E i \in DOMAIN inits, ok \in DraftSlot : InitDraftRead(i, ok)
  \/ SetPrompt("p")
  \/ ProcessFile(Photo)
  \/ ReaderOnLoad
  \/ (calls = <<>> /\ HandleGenerate)
  \/ \E i \in DOMAIN calls, ok \in DraftSlot : GenerationSucceeds(i, "r1", ok)
  \/ \E ok \in DraftSlot : HandleReset(ok)
  \/ \E ok \in DraftSlot : AutoSaveTick(ok)
  \/ ConfirmSaveDesign
  \/ \E outcome \in {"ok", "uploadStringRejects"} : SaveUploadOriginal(outcome)
  \/ SaveUploadGenerated("ok")
  \/ SaveUploadIterations([k \in 1..SaveLen |-> "ok"])
  \/ SaveSetDoc(TRUE)
  \/ \E okClear \in DraftSlot : SaveRefreshed(TRUE, okClear)
  \/ SaveDialogClosed

SpecDraft == InitDraft /\ [][NextDraft]_vars

(***************************************************************************)
(* SpecGallery: the gallery over collections that hold, next to the        *)
(* caller's lineages, a lineage of another owner, a record with artifacts  *)
(* that were never uploaded, and a lineage saved again under a new id,     *)
(* whose locators are those of the first save.  The user signs in and out, *)
(* the gallery is loaded, and cards are deleted one at a time; every       *)
(* request to the collection and to the bucket may be rejected.            *)
(***************************************************************************)
ForeignDesign ==
  [id |-> 7,
   userId |-> "u2",
   timestamp |-> 4,
   originalImage |-> Url(Path("u2", 7, "original", 0)),
   generatedImage |-> Url(Path("u2", 7, "generated", 0)),
   prompt |-> "q",
   iterations |-> <<>>]

\* artifacts stored inline in the record
InlineDesign ==
  [id |-> 8,
   userId |-> "u1",
   timestamp |-> 3,
   originalImage |-> Url(Path("u1", 8, "original", 0)),
   generatedImage |-> Inline("r2"),
   prompt |-> "q",
   iterations |-> <<[id |-> 9, prompt |-> "p",
                     image |-> Url(Path("u1", 8, "iteration", 9)), timestamp |-> 3],
                    [id |-> 10, prompt |-> "q", image |-> Inline("r2"),
                     timestamp |-> 3]>>]

\* confirmSaveDesign of the session that handleLoadDesign builds from
\* EarlierDesign, under the new id 11 with the new step 12: NeedsUpload is
\* false for every artifact, so the record keeps the locators of design 4
ResavedDesign ==
  [id |-> 11,
   userId |-> "u1",
   timestamp |-> 2,
   originalImage |-> EarlierDesign.originalImage,
   generatedImage |-> LoadedSession(EarlierDesign).generatedImage,
   prompt |-> LoadedSession(EarlierDesign).prompt,
   iterations |-> Append(LoadedSession(EarlierDesign).pastIterations,
                         [id |-> 12,
                          prompt |-> LoadedSession(EarlierDesign).prompt,
                          image |-> LoadedSession(EarlierDesign).generatedImage,
                          timestamp |-> 2])]

AllRecords ==
  LineageDb @@ (7 :> ForeignDesign) @@ (8 :> InlineDesign) @@ (11 :> ResavedDesign)

AllObjects ==
  LineageStorage
  @@ (Path("u2", 7, "original", 0) :> "f1")
  @@ (Path("u2", 7, "generated", 0) :> "r1")
  @@ (Path("u1", 8, "original", 0) :> "f1")
  @@ (Path("u1", 8, "iteration", 9) :> "r1")

GalleryIds == {{4, 7, 11}, {7, 8}, {5, 6, 7}}

InitGallery ==
  /\ now = 5
  /\ deletes = <<>>
  /\ history = UseUndoRedo("")
  /\ Fresh
  /\ draft = <<>>
  /\ \E ids \in GalleryIds :
       /\ db = [x \in ids |-> AllRecords[x]]
       /\ storage = [path \in {q \in DOMAIN AllObjects : q.d \in ids}
                       |-> AllObjects[path]]

NextGallery ==
  \/ \E u \in Users \cup {NoUser} : AuthStateChanged(u)
  \/ \E i \in DOMAIN inits, ok \in BOOLEAN : InitDesignsLoaded(i, ok)
  \/ \E i \in DOMAIN inits, ok \in DraftSlotThrows : InitDraftRead(i, ok)
  \/ (deletes = <<>> /\ \E design \in Gallery : HandleDeleteDesign(design.id))
  \/ \E i \in DOMAIN deletes, ok \in BOOLEAN : DeleteGotDoc(i, ok)
  \/ \E i \in DOMAIN deletes :
       \E outcomes \in [deletes[i].issued -> {"ok", "storage/object-not-found",
                                              "storage/unauthorized"}] :
         DeleteCleanedUp(i, outcomes)
  \/ \E i \in DOMAIN deletes, ok \in BOOLEAN : DeleteDocSettled(i, ok)
  \/ \E i \in DOMAIN deletes, ok \in BOOLEAN : DeleteRefreshed(i, ok)

SpecGallery == InitGallery /\ [][NextGallery]_vars

(***************************************************************************)
(* SpecHistory: the edit history of the prompt on the form of a fresh      *)
(* page: typing, the debounced commit, undo, redo and the suggestion       *)
(* chips.                                                                  *)
(***************************************************************************)
TypedPrompts == {"", "p", "q"}
Suggestions == {"s"}

InitHistory ==
  /\ now = 1
  /\ deletes = <<>>
  /\ history = UseUndoRedo("")
  /\ Fresh
  /\ draft = <<>>
  /\ db = EarlierDb
  /\ storage = EarlierStorage

NextHistory ==
  \/ \E v \in TypedPrompts : SetPrompt(v)
  \/ CommitTimerFires
  \/ UndoClicked
  \/ RedoClicked
  \/ \E v \in Suggestions : SuggestionClicked(v)

SpecHistory == InitHistory /\ [][NextHistory]_vars

(***************************************************************************)
(* Properties of the generation calls (SpecGen).                           *)
(***************************************************************************)
\* a step that issues a generation call
StartAccepted == Len(calls') > Len(calls)

\* the result comparison is on display
ResultDisplayed ==
  appState = "SUCCESS" /\ Truthy(generatedImage) /\ Truthy(imagePreview)

\* C1 as stated: a step issues a generation call only from appState IDLE;
\* in LOADING, SUCCESS and ERROR no call is issued.
C1_OnlyIdleAccepts == [][StartAccepted => appState = "IDLE"]_vars

\* C1 as the code has it: while a call keeps the page in LOADING, and while
\* a result is on display, no step issues a generation call and none moves
\* the session into LOADING; IDLE, ERROR and a SUCCESS without a displayed
\* result accept the request.
C1_RejectedWhileLoadingOrDisplayed ==
  [][(appState = "LOADING" \/ ResultDisplayed)
       => /\ ~StartAccepted
          /\ (appState' = "LOADING" => appState = "LOADING")]_vars

\* a call that was accepted in ERROR is in flight
C1_AcceptedInError ==
  \E i \in DOMAIN calls : calls[i].issuedIn = "ERROR" /\ appState = "LOADING"

\* C2: at every moment at most one generation call is in flight.
C2_AtMostOneInFlight == Len(calls) <= 1

\* the step completes call i: only a resolution or rejection removes a call
Completes(i) == i \in DOMAIN calls /\ calls' = RemoveAt(calls, i)

\* C3: when a call completes after handleReset ran during its flight, the
\* completion leaves generatedImage and appState as they were.
C3_StaleResultDiscarded ==
  [][\A i \in DOMAIN calls :
       (calls[i].resetSince /\ Completes(i))
         => (generatedImage' = generatedImage /\ appState' = appState)]_vars

C5_NoRootNoHistory == ~Truthy(originalImageRef) => pastIterations = <<>>

\* the root is gone after a session with history: its draft is still stored
C5_RootClearedAfterHistory ==
  /\ ~Truthy(originalImageRef)
  /\ pastIterations = <<>>
  /\ draft # <<>>
  /\ draft[1].pastIterations # <<>>

(***************************************************************************)
(* Properties of the durable save and of the gallery (SpecSave).           *)
(***************************************************************************)
\* the image an artifact reference shows
Content(img) ==
  IF img.k = "inline" THEN img.c
  ELSE IF img.k = "url" /\ img.p \in DOMAIN storage THEN storage[img.p]
  ELSE "none"

\* the records a step commits to the collection
Committed == DOMAIN db' \ DOMAIN db

\* C6 as stated: every record a save commits has generatedImage equal to the
\* image of its last iteration and prompt equal to that iteration's prompt.
C6_GeneratedIsLastIteration ==
  [][\A id \in Committed :
       Len(db'[id].iterations) > 0
         => /\ db'[id].generatedImage = Last(db'[id].iterations).image
            /\ db'[id].prompt = Last(db'[id].iterations).prompt]_vars

\* C6 as the code has it: every record a save commits has the prompt of its
\* last iteration, and its generatedImage shows the same image as its last
\* iteration's image; the two are uploaded to different paths, so the
\* locators differ whenever the result was inline.
C6_GeneratedShowsLastIteration ==
  [][\A id \in Committed :
       Len(db'[id].iterations) > 0
         => /\ StartsWithHttp(db'[id].generatedImage)
            /\ StartsWithHttp(Last(db'[id].iterations).image)
            /\ Content(db'[id].generatedImage) # "none"
            /\ Content(db'[id].generatedImage)
                 = Content(Last(db'[id].iterations).image)
            /\ db'[id].prompt = Last(db'[id].iterations).prompt]_vars

\* a committed record whose two locators differ and show the same image
C6_TwoLocatorsOneImage ==
  \E id \in DOMAIN db \ DOMAIN EarlierDb :
    /\ db[id].generatedImage # Last(db[id].iterations).image
    /\ Content(db[id].generatedImage) = Content(Last(db[id].iterations).image)
    /\ db[id].prompt = Last(db[id].iterations).prompt

\* every upload of the save in flight has resolved with a stored object
Resolved(img) == StartsWithHttp(img) /\ img.p \in DOMAIN storage

AllUploadsResolved(s) ==
  /\ Resolved(s.originalUrl)
  /\ Resolved(s.generatedUrl)
  /\ Len(s.processedIterations) = Len(s.design.iterations)
  /\ \A n \in DOMAIN s.processedIterations : Resolved(s.processedIterations[n].image)

SaveFailureMessage == "Failed to save. Storage limit reached."

\* the step ends the save before its setDoc resolved
SaveGivenUp == save # <<>> /\ save' = <<>> /\ save[1].pc \notin {"refresh", "closing"}

\* C7: the collection changes only in the setDoc step of a save whose
\* uploads have all resolved, and the step adds that save's record only; a
\* save that ends on a failed upload leaves the collection as it was,
\* without a record of its design, and reports the failure.
C7_MetadataAfterAllUploads ==
  [][/\ db' # db
          => /\ save # <<>>
             /\ save[1].pc = "setDoc"
             /\ AllUploadsResolved(save[1])
             /\ Committed = {save[1].design.id}
             /\ \A id \in DOMAIN db : db'[id] = db[id]
     /\ SaveGivenUp
          => /\ db' = db
             /\ save[1].design.id \notin DOMAIN db'
             /\ ~isSaving'
             /\ errorMsg' = SaveFailureMessage]_vars

\* a save failed after it had stored an object: the object has no record
C7_FailedAfterPartialUpload ==
  /\ save = <<>>
  /\ errorMsg = SaveFailureMessage
  /\ \E path \in DOMAIN storage : path.d \notin DOMAIN db

\* C8: every record of the collection references download URLs only, in
\* originalImage, generatedImage and every iteration's image.
C8_RecordsReferenceLocatorsOnly ==
  \A id \in DOMAIN db :
    /\ StartsWithHttp(db[id].originalImage)
    /\ StartsWithHttp(db[id].generatedImage)
    /\ \A n \in DOMAIN db[id].iterations : StartsWithHttp(db[id].iterations[n].image)

\* a committed record of a mixed session: one iteration image was uploaded
\* by its save, another was a locator of an earlier design already
C8_CommittedFromMixedInputs ==
  \E id \in DOMAIN db :
    /\ \E n \in DOMAIN db[id].iterations : db[id].iterations[n].image.p.d = id
    /\ \E n \in DOMAIN db[id].iterations : db[id].iterations[n].image.p.d # id

\* the session confirmSaveDesign promoted: its closure
PromotedPast(s) == SubSeq(s.design.iterations, 1, Len(s.design.iterations) - 1)

C10_ViewReconstruction ==
  [][\A design \in Gallery :
       (Len(design.iterations) >= 1 /\ HandleLoadDesign(design))
         => LET N == Len(design.iterations) IN
              /\ pastIterations' = SubSeq(design.iterations, 1, N - 1)
              /\ imagePreview' = IF N >= 2 THEN design.iterations[N - 1].image
                                 ELSE design.originalImage
              /\ generatedImage' = design.iterations[N].image
              /\ prompt' = design.iterations[N].prompt
              /\ originalImageRef' = design.originalImage
              /\ appState' = "SUCCESS"]_vars

\* the three-step lineage is on display: two steps of history, the second
\* one as the input
C10_ViewingThreeSteps ==
  /\ appState = "SUCCESS"
  /\ pastIterations = <<EarlierDesign.iterations[1], EarlierDesign.iterations[2]>>
  /\ imagePreview = EarlierDesign.iterations[2].image
  /\ generatedImage = EarlierDesign.iterations[3].image
  /\ prompt = EarlierDesign.iterations[3].prompt

\* C11: editing a record with N >= 1 iterations sets generatedImage to null
\* and appState to IDLE, imagePreview to the image of iteration N-1 when
\* N >= 2 and to originalImage when N = 1, pastIterations to the first N-1
\* iterations and prompt to the prompt of iteration N.
C11_EditReconstruction ==
  [][\A design \in Gallery :
       (Len(design.iterations) >= 1 /\ HandleEditDesign(design))
         => LET N == Len(design.iterations) IN
              /\ generatedImage' = Null
              /\ appState' = "IDLE"
              /\ imagePreview' = IF N >= 2 THEN design.iterations[N - 1].image
                                 ELSE design.originalImage
              /\ pastIterations' = SubSeq(design.iterations, 1, N - 1)
              /\ prompt' = design.iterations[N].prompt]_vars

\* a committed record of one step is open for editing: its root photo is the
\* input, there is no history and no result
C11_EditingOneStep ==
  \E id \in DOMAIN db \ DOMAIN EarlierDb :
    /\ Len(db[id].iterations) = 1
    /\ appState = "IDLE"
    /\ generatedImage = Null
    /\ originalImageRef = db[id].originalImage
    /\ imagePreview = db[id].originalImage
    /\ imagePreview.p.d = id
    /\ pastIterations = <<>>
    /\ prompt = db[id].iterations[1].prompt

(***************************************************************************)
(* Properties of reconstruction and refinement over the gallery            *)
(* (SpecLineage).                                                          *)
(***************************************************************************)
\* C12: loading a legacy record (no iterations, generatedImage G, prompt P)
\* for viewing sets pastIterations to [], imagePreview to originalImage,
\* generatedImage to G, prompt to P and appState to SUCCESS, from every
\* session.
C12_LegacyViewReconstruction ==
  [][\A design \in Gallery :
       (/\ Len(design.iterations) = 0
        /\ Truthy(design.generatedImage)
        /\ HandleLoadDesign(design))
         => /\ pastIterations' = <<>>
            /\ imagePreview' = design.originalImage
            /\ generatedImage' = design.generatedImage
            /\ prompt' = design.prompt
            /\ appState' = "SUCCESS"]_vars

\* the legacy record is on display while a call that was issued from a
\* session with history is still in flight
C12_LegacyOverSessionWithHistory ==
  /\ appState = "SUCCESS"
  /\ pastIterations = <<>>
  /\ imagePreview = LegacyDesign.originalImage
  /\ generatedImage = LegacyDesign.generatedImage
  /\ prompt = LegacyDesign.prompt
  /\ \E i \in DOMAIN calls : calls[i].pastIterations # <<>>

\* C13: from every session and for every record of the gallery, loading for
\* viewing and loading for editing set the same pastIterations,
\* imagePreview, originalImageRef and prompt; editing sets generatedImage
\* to null and appState to IDLE.
C13_ViewAndEditAgree ==
  [][\A design \in Gallery :
       /\ HandleLoadDesign(design)
            => /\ pastIterations' = EditedSession(design).pastIterations
               /\ imagePreview' = EditedSession(design).imagePreview
               /\ prompt' = EditedSession(design).prompt
               /\ originalImageRef' = design.originalImage
       /\ HandleEditDesign(design)
            => /\ pastIterations' = LoadedSession(design).pastIterations
               /\ imagePreview' = LoadedSession(design).imagePreview
               /\ prompt' = LoadedSession(design).prompt
               /\ originalImageRef' = design.originalImage
               /\ generatedImage' = Null
               /\ appState' = "IDLE"]_vars

\* C14: a refine step is taken from SUCCESS with a result R and prompt P
\* only; it appends one iteration with prompt P and image R at the end of
\* pastIterations, sets imagePreview to R, clears generatedImage and the
\* prompt, sets appState to IDLE and leaves originalImageRef as it was.
C14_RefineAppendsResult ==
  [][Refine
       => /\ appState = "SUCCESS"
          /\ Truthy(generatedImage)
          /\ Len(pastIterations') = Len(pastIterations) + 1
          /\ SubSeq(pastIterations', 1, Len(pastIterations)) = pastIterations
          /\ pastIterations'[Len(pastIterations')].prompt = prompt
          /\ pastIterations'[Len(pastIterations')].image = generatedImage
          /\ imagePreview' = generatedImage
          /\ generatedImage' = Null
          /\ prompt' = ""
          /\ appState' = "IDLE"
          /\ originalImageRef' = originalImageRef]_vars

\* the result of the three-step lineage was refined: it is the third entry
\* of the history and the input of the next step
C14_RefinedLoadedResult ==
  /\ appState = "IDLE"
  /\ Len(pastIterations) = 3
  /\ SubSeq(pastIterations, 1, 2) = SubSeq(EarlierDesign.iterations, 1, 2)
  /\ pastIterations[3].image = EarlierDesign.iterations[3].image
  /\ pastIterations[3].prompt = EarlierDesign.iterations[3].prompt
  /\ pastIterations[3].id \notin IterationIds(EarlierDesign.iterations)
  /\ imagePreview = EarlierDesign.iterations[3].image
  /\ generatedImage = Null
  /\ prompt = ""
  /\ originalImageRef = EarlierDesign.originalImage

\* a step that replaces the session: reset, the onload of a selected file,
\* load, edit, draft restore
SessionReplaced ==
  \/ \E ok \in BOOLEAN : HandleReset(ok)
  \/ ReaderOnLoad
  \/ \E design \in Gallery : HandleLoadDesign(design) \/ HandleEditDesign(design)
  \/ \E i \in DOMAIN inits, ok \in BOOLEAN : InitDraftRead(i, ok)

\* C18: a step that does not replace the session either leaves
\* pastIterations as it is or is a refine that adds one entry at the end and
\* keeps every earlier entry in its place.
C18_HistoryAppendOnly ==
  [][~SessionReplaced
       => \/ pastIterations' = pastIterations
          \/ /\ Refine
             /\ Len(pastIterations') = Len(pastIterations) + 1
             /\ SubSeq(pastIterations', 1, Len(pastIterations)) = pastIterations]_vars

\* three refines of one session, in the order they were made
C18_ThreeRefinesInOrder ==
  /\ Len(pastIterations) = 3
  /\ \A n \in 1..3 : pastIterations[n].image.k = "inline"
  /\ pastIterations[1].id < pastIterations[2].id
  /\ pastIterations[2].id < pastIterations[3].id
  /\ originalImageRef = DataUrl(Photo)

(***************************************************************************)
(* Properties of reset, retry and the start of a generation.               *)
(***************************************************************************)
\* the session after handleReset
ResetSession ==
  /\ appState' = "IDLE"
  /\ imagePreview' = Null
  /\ originalImageRef' = Null
  /\ generatedImage' = Null
  /\ pastIterations' = <<>>
  /\ selectedFile' = NoFile
  /\ prompt' = ""

\* C15 as stated: every reset step sets appState to IDLE, clears
\* imagePreview, originalImageRef, generatedImage, pastIterations, the
\* selected file and the prompt, and leaves the draft slot empty.
C15_ResetDeletesDraft ==
  [][(\E ok \in BOOLEAN : HandleReset(ok)) => (ResetSession /\ draft' = <<>>)]_vars

\* C15 as the code has it: every reset step sets appState to IDLE and clears
\* imagePreview, originalImageRef, generatedImage, pastIterations, the
\* selected file and the prompt; the draft slot is empty afterwards when
\* its del takes effect, and keeps the snapshot when del rejects.
C15_ResetClearsSessionAndTriesDraft ==
  [][\A ok \in BOOLEAN :
       HandleReset(ok)
         => /\ ResetSession
            /\ draft' = IF ok THEN <<>> ELSE draft]_vars

\* reset ran while a call was in flight, the session is cleared and the
\* snapshot of the earlier result is still in the slot
C15_SnapshotSurvivedReset ==
  /\ appState = "IDLE"
  /\ selectedFile = NoFile
  /\ imagePreview = Null
  /\ originalImageRef = Null
  /\ generatedImage = Null
  /\ pastIterations = <<>>
  /\ prompt = ""
  /\ draft # <<>>
  /\ \E i \in DOMAIN calls : calls[i].resetSince

\* C16: a retry step is taken from SUCCESS; it sets appState to IDLE and
\* generatedImage to null and leaves imagePreview, originalImageRef,
\* pastIterations and the prompt as they were.
C16_RetryKeepsInput ==
  [][HandleRetry
       => /\ appState = "SUCCESS"
          /\ appState' = "IDLE"
          /\ generatedImage' = Null
          /\ UNCHANGED <<imagePreview, originalImageRef, pastIterations, prompt>>]_vars

\* the result was discarded: the session is the one the snapshot of the
\* success holds, without the result and in IDLE
C16_ResultDiscarded ==
  /\ appState = "IDLE"
  /\ generatedImage = Null
  /\ Truthy(imagePreview)
  /\ prompt # ""
  /\ calls = <<>>
  /\ draft # <<>>
  /\ draft[1].appState = "SUCCESS"
  /\ Truthy(draft[1].generatedImage)
  /\ draft[1].imagePreview = imagePreview
  /\ draft[1].originalImageRef = originalImageRef
  /\ draft[1].pastIterations = pastIterations
  /\ draft[1].prompt = prompt

\* C17 as stated: a step issues a generation call only when imagePreview is
\* non-null and the trimmed prompt is non-empty.
C17_StartsOnlyWithWorkingImage ==
  [][StartAccepted => (Truthy(imagePreview) /\ Trim(prompt) # "")]_vars

\* C17 as the code has it: a step issues a generation call, and only such a
\* step moves the session into LOADING, only when a file is selected or
\* imagePreview is non-null, and the trimmed prompt is non-empty.
C17_StartsOnlyWithInputAndPrompt ==
  [][/\ StartAccepted
          => /\ selectedFile # NoFile \/ Truthy(imagePreview)
             /\ Trim(prompt) # ""
             /\ appState' = "LOADING"
     /\ (appState' = "LOADING" /\ appState # "LOADING") => StartAccepted]_vars

\* a call is in flight that was issued from the selected file before its
\* preview was read
C17_StartedFromFileWithoutPreview ==
  \E i \in DOMAIN calls :
    /\ calls[i].imagePreview = Null
    /\ calls[i].input = DataUrl(Photo)
    /\ Trim(calls[i].prompt) # ""

(***************************************************************************)
(* Properties of the draft restore at the start of the page (SpecStart).   *)
(***************************************************************************)
\* line 74, on the current render
Pristine == selectedFile = NoFile /\ ~Truthy(imagePreview) /\ prompt = ""

\* C19: when the draft read of an init that was started from a pristine
\* render returns a snapshot and the session is still pristine, prompt,
\* imagePreview, generatedImage, pastIterations and originalImageRef become
\* the stored values and appState the stored appState.
C19_PristineStartRestoresSnapshot ==
  [][\A i \in DOMAIN inits :
       (/\ InitDraftRead(i, TRUE)
        /\ draft # <<>>
        /\ inits[i].clean
        /\ Pristine)
         => /\ prompt' = draft[1].prompt
            /\ imagePreview' = draft[1].imagePreview
            /\ generatedImage' = draft[1].generatedImage
            /\ pastIterations' = draft[1].pastIterations
            /\ originalImageRef' = draft[1].originalImageRef
            /\ appState' = draft[1].appState]_vars

\* the page shows the restored snapshot of a pending call: LOADING without
\* a call in flight
C19_RestoredLoading ==
  /\ appState = "LOADING"
  /\ calls = <<>>
  /\ inits = <<>>
  /\ draft # <<>>
  /\ draft[1].appState = "LOADING"
  /\ prompt = draft[1].prompt
  /\ imagePreview = draft[1].imagePreview
  /\ originalImageRef = draft[1].originalImageRef

\* C20: when a draft read completes while the session is not pristine, the
\* step leaves prompt, imagePreview, generatedImage, pastIterations,
\* originalImageRef and appState as they were.
C20_SnapshotIgnoredOverContent ==
  [][\A i \in DOMAIN inits, ok \in BOOLEAN :
       (InitDraftRead(i, ok) /\ ~Pristine)
         => UNCHANGED <<prompt, imagePreview, generatedImage, pastIterations,
                        originalImageRef, appState>>]_vars

(***************************************************************************)
(* Properties of the uploads of a save (SpecSave).                         *)
(***************************************************************************)
AllInline(design) ==
  /\ design.originalImage.k = "inline"
  /\ design.generatedImage.k = "inline"
  /\ \A n \in DOMAIN design.iterations : design.iterations[n].image.k = "inline"

\* the objects of the bucket under a design's folder
ObjectsOf(id, store) == {path \in DOMAIN store : path.d = id}

\* C25: a save that commits a design of N iterations whose images are all
\* inline has issued N+2 uploads and left N+2 objects in the design's
\* folder; the collection changes in one step per save, which adds one
\* record and ends the save's setDoc step.
C25_InlineSaveUploadsEachArtifact ==
  [][/\ \A id \in Committed :
          AllInline(save[1].design)
            => /\ save[1].uploads = Len(save[1].design.iterations) + 2
               /\ Cardinality(ObjectsOf(id, storage'))
                    = Len(save[1].design.iterations) + 2
     /\ db' # db
          => /\ Cardinality(Committed) = 1
             /\ save[1].pc = "setDoc"
             /\ save' # <<>>
             /\ save'[1].pc = "refresh"]_vars

\* a committed record of two steps that were both inline: four objects in
\* its folder
C25_TwoStepsFourObjects ==
  \E id \in DOMAIN db \ DOMAIN EarlierDb :
    /\ Len(db[id].iterations) = 2
    /\ db[id].originalImage.p.d = id
    /\ db[id].generatedImage.p.d = id
    /\ \A n \in 1..2 : db[id].iterations[n].image.p.d = id
    /\ Cardinality(ObjectsOf(id, storage)) = 4

\* the artifacts of a design that are inline
InlineCount(design) ==
  (IF design.originalImage.k = "inline" THEN 1 ELSE 0)
  + (IF design.generatedImage.k = "inline" THEN 1 ELSE 0)
  + Cardinality({n \in DOMAIN design.iterations :
                   design.iterations[n].image.k = "inline"})

\* what a save commits for the artifact a, to be uploaded to path
CommittedAs(a, b, path, store) ==
  IF StartsWithHttp(a) THEN b = a
  ELSE b = Url(path) /\ path \in DOMAIN store /\ store[path] = a.c

\* C26: a save that commits a record has issued one upload per inline
\* artifact and none for a locator; the record holds every locator as it
\* was, and for every inline artifact the URL of the object uploaded for it.
C26_UploadsExactlyInlineArtifacts ==
  [][\A id \in Committed :
       LET s == save[1]
           d == s.design
           r == db'[id]
       IN /\ s.uploads = InlineCount(d)
          /\ Cardinality(ObjectsOf(id, storage')) = InlineCount(d)
          /\ CommittedAs(d.originalImage, r.originalImage,
                         Path(s.uid, id, "original", 0), storage')
          /\ CommittedAs(d.generatedImage, r.generatedImage,
                         Path(s.uid, id, "generated", 0), storage')
          /\ Len(r.iterations) = Len(d.iterations)
          /\ \A n \in DOMAIN d.iterations :
               CommittedAs(d.iterations[n].image, r.iterations[n].image,
                           Path(s.uid, id, "iteration", d.iterations[n].id),
                           storage')]_vars

\* a record was committed from locators only: the three-step lineage saved
\* again, without an object in the new design's folder
C26_ResavedWithoutUpload ==
  \E id \in DOMAIN db \ DOMAIN EarlierDb :
    /\ db[id].originalImage = EarlierDesign.originalImage
    /\ db[id].generatedImage = EarlierDesign.iterations[3].image
    /\ Len(db[id].iterations) = 3
    /\ \A n \in 1..3 : db[id].iterations[n].image = EarlierDesign.iterations[n].image
    /\ ObjectsOf(id, storage) = {}

(***************************************************************************)
(* Properties of the draft slot (SpecDraft).                               *)
(***************************************************************************)
\* line 93
HasContent == Truthy(imagePreview) \/ prompt # ""

\* the snapshot of the current render
CurrentSnapshot ==
  [timestamp |-> now, prompt |-> prompt, imagePreview |-> imagePreview,
   generatedImage |-> generatedImage, pastIterations |-> pastIterations,
   originalImageRef |-> originalImageRef, appState |-> appState]

C22_SuccessIsSnapshotted ==
  [][\A i \in DOMAIN calls, r \in Results :
       (\E ok \in BOOLEAN : GenerationSucceeds(i, r, ok))
         => /\ appState' = "SUCCESS"
            /\ generatedImage' = Inline(r)
            /\ draft' # <<>>
            /\ draft'[1].generatedImage = Inline(r)
            /\ draft'[1].appState = "SUCCESS"]_vars

\* C22 as the code has it: when a call returns the image R, appState becomes
\* SUCCESS and generatedImage R in the same step as the write of a snapshot
\* with generatedImage R and appState SUCCESS; the slot holds that snapshot
\* when the write takes effect and keeps what it held when the write is
\* rejected.
C22_SuccessTriesSnapshot ==
  [][\A i \in DOMAIN calls, r \in Results, ok \in BOOLEAN :
       GenerationSucceeds(i, r, ok)
         => /\ appState' = "SUCCESS"
            /\ generatedImage' = Inline(r)
            /\ IF ok
               THEN /\ draft' # <<>>
                    /\ draft'[1].generatedImage = Inline(r)
                    /\ draft'[1].appState = "SUCCESS"
               ELSE draft' = draft]_vars

\* the result of a restored session is on display and in the slot
C22_ResultInSlot ==
  /\ ResultDisplayed
  /\ draft # <<>>
  /\ draft[1].appState = "SUCCESS"
  /\ draft[1].generatedImage = generatedImage
  /\ draft[1].imagePreview = imagePreview
  /\ Len(draft[1].pastIterations) = 1

\* the fields of the working session
SessionFields ==
  <<prompt, imagePreview, originalImageRef, generatedImage, pastIterations, appState>>

\* C23 as stated: the step in which a save that succeeded returns leaves
\* the draft slot empty; a save that fails leaves the draft slot and
\* prompt, imagePreview, originalImageRef, generatedImage, pastIterations
\* and appState as they were.
C23_SaveDeletesDraft ==
  [][/\ (\E ok \in BOOLEAN, okClear \in BOOLEAN : SaveRefreshed(ok, okClear))
          => draft' = <<>>
     /\ SaveGivenUp => UNCHANGED <<draft, SessionFields>>]_vars

\* C23 as the code has it: the step in which a save that succeeded returns
\* leaves the draft slot empty when the delete takes effect and as it was
\* when the delete is rejected; a save that fails leaves the draft slot as
\* it was; neither changes prompt, imagePreview, originalImageRef,
\* generatedImage, pastIterations or appState.
C23_SaveTriesDraftFailureKeepsAll ==
  [][/\ \A ok \in BOOLEAN, okClear \in BOOLEAN :
          SaveRefreshed(ok, okClear)
            => /\ draft' = IF okClear THEN <<>> ELSE draft
               /\ UNCHANGED SessionFields
     /\ SaveGivenUp => UNCHANGED <<draft, SessionFields>>]_vars

\* a save has committed its record and the snapshot is still in the slot
C23_SnapshotSurvivedSave ==
  /\ save # <<>>
  /\ save[1].pc = "closing"
  /\ save[1].design.id \in DOMAIN db
  /\ draft # <<>>

\* C24: a write of the slot that is rejected after a successful generation
\* leaves appState SUCCESS with the result and errorMsg as it was; a read
\* that is rejected at the start leaves the pristine session as it is; a
\* delete that is rejected leaves reset with the cleared session and the
\* save on its way to the closing of the dialog, with errorMsg untouched.
C24_SlotFailuresNotSurfaced ==
  [][/\ \A i \in DOMAIN calls, r \in Results :
          GenerationSucceeds(i, r, FALSE)
            => /\ appState' = "SUCCESS"
               /\ generatedImage' = Inline(r)
               /\ errorMsg' = errorMsg
     /\ \A i \in DOMAIN inits :
          (InitDraftRead(i, FALSE) /\ Pristine) => UNCHANGED sessionVars
     /\ HandleReset(FALSE) => (ResetSession /\ errorMsg' = "")
     /\ \A ok \in BOOLEAN :
          SaveRefreshed(ok, FALSE)
            => /\ save'[1].pc = "closing"
               /\ isSaving' = isSaving
               /\ UNCHANGED sessionVars]_vars

\* a result is on display that no write has put into the slot, and no
\* error is shown
C24_ResultWithoutSnapshot ==
  /\ ResultDisplayed
  /\ errorMsg = ""
  /\ calls = <<>>
  /\ save = <<>>
  /\ draft = <<>>
  /\ db = EarlierDb
  /\ storage = EarlierStorage

(***************************************************************************)
(* Properties of the gallery: load-all and delete (SpecGallery).           *)
(***************************************************************************)
\* list holds each record that uid owns in collection once, and no other,
\* newest first
OwnedNewestFirst(list, uid, collection) ==
  /\ {list[k] : k \in DOMAIN list}
       = {collection[x] : x \in {y \in DOMAIN collection :
                                   collection[y].userId = uid}}
  /\ \A k, l \in DOMAIN list :
       k < l => (list[k] # list[l] /\ list[k].timestamp >= list[l].timestamp)

\* C27 as stated: the list that load-all returns, at the start of the page
\* and at the end of a delete, holds exactly the records of the collection
\* whose owner is the caller, newest first; without an owner id it is
\* empty.
C27_LoadAllOwnedNewestFirst ==
  [][/\ GetSavedDesigns(NoUser, TRUE) = {<<>>}
     /\ \A i \in DOMAIN inits :
          (\E ok \in BOOLEAN : InitDesignsLoaded(i, ok))
            => OwnedNewestFirst(savedDesigns', inits[i].uid, db)
     /\ \A i \in DOMAIN deletes :
          (\E ok \in BOOLEAN : DeleteRefreshed(i, ok))
            => OwnedNewestFirst(savedDesigns', deletes[i].uid, db)]_vars

\* C27 as the code has it: when the query is answered, the list that
\* load-all returns holds exactly the records of the collection whose
\* owner is the caller, newest first; when the query is rejected the list
\* is empty; without an owner id it is empty.
C27_LoadAllOwnedOrEmpty ==
  [][/\ \A ok \in BOOLEAN : GetSavedDesigns(NoUser, ok) = {<<>>}
     /\ \A i \in DOMAIN inits, ok \in BOOLEAN :
          InitDesignsLoaded(i, ok)
            => IF ok THEN OwnedNewestFirst(savedDesigns', inits[i].uid, db)
               ELSE savedDesigns' = <<>>
     /\ \A i \in DOMAIN deletes, ok \in BOOLEAN :
          DeleteRefreshed(i, ok)
            => IF ok THEN OwnedNewestFirst(savedDesigns', deletes[i].uid, db)
               ELSE savedDesigns' = <<>>]_vars

\* the gallery holds the caller's two records, the newer first, and the
\* record of the other owner is in the collection
C27_TwoOfThreeLoaded ==
  /\ user = "u1"
  /\ savedDesigns = <<ResavedDesign, EarlierDesign>>
  /\ DOMAIN db = {4, 7, 11}

\* C28: once the storage deletes of a delete are issued, whatever each of
\* them settles with, the objects whose delete was accepted are gone, no
\* other object is, and the next step of the delete is deleteDoc, never a
\* return; a deleteDoc that is accepted removes the record.
C28_CleanupNeverStopsDelete ==
  [][\A i \in DOMAIN deletes :
       /\ (deletes[i].pc = "cleanup" /\ deletes' # deletes)
            => /\ Len(deletes') = Len(deletes)
               /\ deletes'[i] = [deletes[i] EXCEPT !.pc = "deleteDoc"]
               /\ DOMAIN storage \ DOMAIN storage' \subseteq deletes[i].issued
               /\ UNCHANGED <<db, savedDesigns>>
       /\ \A outcomes \in [deletes[i].issued -> {"ok", "storage/object-not-found",
                                                   "storage/unauthorized"}] :
            DeleteCleanedUp(i, outcomes)
              => \A path \in deletes[i].issued :
                   path \in DOMAIN storage' <=>
                     (path \in DOMAIN storage /\ outcomes[path] # "ok")
       /\ DeleteDocSettled(i, TRUE) => deletes[i].id \notin DOMAIN db']_vars

\* the record of the three-step lineage is gone after a cleanup that
\* removed some of its objects and was refused others
C28_RecordGoneAfterPartialCleanup ==
  \E i \in DOMAIN deletes :
    /\ deletes[i].id = 4
    /\ deletes[i].pc = "refresh"
    /\ 4 \notin DOMAIN db
    /\ Cardinality(deletes[i].issued) = 5
    /\ \E path \in deletes[i].issued : path \in DOMAIN storage
    /\ \E path \in deletes[i].issued : path \notin DOMAIN storage

\* the paths of the artifacts of a record that are locators
LocatorPaths(design, id, uid) ==
  {path \in {Path(uid, id, "original", 0), Path(uid, id, "generated", 0)}
             \cup {Path(uid, id, "iteration", design.iterations[k].id) :
                     k \in DOMAIN design.iterations} :
     \/ path.t = "original" /\ design.originalImage.k = "url"
     \/ path.t = "generated" /\ design.generatedImage.k = "url"
     \/ /\ path.t = "iteration"
        /\ \E k \in DOMAIN design.iterations :
             /\ design.iterations[k].id = path.i
             /\ design.iterations[k].image.k = "url"}

\* C29: the storage deletes that a delete issues are those of the
\* original, the generated image and the iterations of the record that are
\* locators, and none for an artifact that is inline; objects leave the
\* bucket only by these calls; and the delete goes on to deleteDoc, which
\* removes the record when it is accepted.
C29_StorageDeletesOnlyForLocators ==
  [][/\ \A i \in DOMAIN deletes :
          /\ (deletes[i].pc = "getDoc" /\ Len(deletes') = Len(deletes)
                /\ deletes'[i].pc = "cleanup")
               => deletes'[i].issued
                    = LocatorPaths(db[deletes[i].id], deletes[i].id, deletes[i].uid)
          /\ (deletes[i].pc = "cleanup" /\ deletes' # deletes)
               => (Len(deletes') = Len(deletes) /\ deletes'[i].pc = "deleteDoc")
          /\ DeleteDocSettled(i, TRUE) => deletes[i].id \notin DOMAIN db'
     /\ storage' # storage
          => \E i \in DOMAIN deletes :
               /\ deletes[i].pc = "cleanup"
               /\ DOMAIN storage \ DOMAIN storage' \subseteq deletes[i].issued]_vars

\* the record with an inline result and an inline step is gone, and the
\* delete called the bucket for its original and its uploaded step only
C29_InlineRecordDeleted ==
  \E i \in DOMAIN deletes :
    /\ deletes[i].id = 8
    /\ deletes[i].pc = "refresh"
    /\ 8 \notin DOMAIN db
    /\ deletes[i].issued = {Path("u1", 8, "original", 0), Path("u1", 8, "iteration", 9)}

\* C30 as stated: the list that a delete returns, and that replaces the
\* gallery, holds exactly the caller's records that are in the collection
\* after the delete, newest first, also when getDoc, deleteDoc or the
\* final query is rejected.
C30_DeleteReturnsRemaining ==
  [][\A i \in DOMAIN deletes :
       deletes' = RemoveAt(deletes, i)
         => OwnedNewestFirst(savedDesigns', deletes[i].uid, db')]_vars

(***************************************************************************)
(* Properties of a failing generation call (Spec).                         *)
(***************************************************************************)
\* C31 as stated: when a generation call fails, appState goes from LOADING
\* to ERROR and errorMsg is set, and imagePreview, originalImageRef,
\* pastIterations, prompt, generatedImage and the draft slot are left as
\* they were.
C31_FailureLeavesLoadingOnly ==
  [][\A i \in DOMAIN calls :
       GenerationFails(i)
         => /\ appState = "LOADING"
            /\ appState' = "ERROR"
            /\ errorMsg' # ""
            /\ UNCHANGED <<imagePreview, originalImageRef, pastIterations, prompt,
                           generatedImage, draft>>]_vars

\* what holds of every failing call: appState becomes ERROR, errorMsg is
\* set and the fields and the slot are left as they were
FailureKeepsSession ==
  [][\A i \in DOMAIN calls :
       GenerationFails(i)
         => /\ appState' = "ERROR"
            /\ errorMsg' # ""
            /\ UNCHANGED <<imagePreview, originalImageRef, pastIterations, prompt,
                           generatedImage, draft>>]_vars

(***************************************************************************)
(* Properties of the promotion of a session to a lineage (SpecDraft).      *)
(***************************************************************************)
\* a save is started in this step
PromoteStarted == save = <<>> /\ save' # <<>>

\* C32: a save is started only with generatedImage and imagePreview both
\* non-null, and the lineage it builds has as iterations pastIterations
\* followed by one step with a fresh id, the current prompt and
\* generatedImage as image, so at least one step; its generatedImage is
\* generatedImage, its prompt the current prompt, and its originalImage is
\* originalImageRef when that is non-null and imagePreview otherwise.
C32_PromoteBuildsLineage ==
  [][PromoteStarted =>
       LET design == save'[1].design
           n == Len(design.iterations)
       IN /\ generatedImage # Null
          /\ imagePreview # Null
          /\ n = Len(pastIterations) + 1
          /\ SubSeq(design.iterations, 1, n - 1) = pastIterations
          /\ design.iterations[n].prompt = prompt
          /\ design.iterations[n].image = generatedImage
          /\ \A k \in 1..(n - 1) : design.iterations[k].id # design.iterations[n].id
          /\ design.generatedImage = generatedImage
          /\ design.prompt = prompt
          /\ design.originalImage =
               IF originalImageRef # Null THEN originalImageRef ELSE imagePreview]_vars

\* a save of a session with one earlier step is under way
C32_PromotedTwoSteps ==
  /\ save # <<>>
  /\ save[1].pc = "original"
  /\ Len(save[1].design.iterations) = 2
  /\ save[1].design.iterations[1] = pastIterations[1]
  /\ save[1].design.iterations[2].image = generatedImage

(***************************************************************************)
(* Properties of the edit history of the prompt (SpecHistory).             *)
(***************************************************************************)
\* C33: commit() with a live value that differs from the baseline puts the
\* old baseline on top of the undo stack, empties the redo stack and makes
\* the live value the baseline; with a live value equal to the baseline it
\* changes nothing, so a second commit in a row changes nothing; and
\* update(v) changes neither stack nor the baseline.
C33_CommitPushesOnceUpdateKeepsStacks ==
  [][/\ Commit(Commit(history, prompt), prompt) = Commit(history, prompt)
     /\ (prompt = history.baseline) => (Commit(history, prompt) = history)
     /\ CommitTimerFires
          => IF prompt # history.baseline
             THEN /\ history'.past = history.past \o <<history.baseline>>
                  /\ history'.future = <<>>
                  /\ history'.baseline = prompt
             ELSE history' = history
     /\ \A v \in TypedPrompts : SetPrompt(v) => history' = history]_vars

\* two commits of typed values have pushed the two earlier baselines
C33_TwoCommitsPushed ==
  /\ history.baseline = "q"
  /\ prompt = "q"
  /\ history.past = <<"", "p">>
  /\ history.future = <<>>

(***************************************************************************)
(* Properties of the session over its calls and its slot.                  *)
(***************************************************************************)
\* C34 as stated: whenever appState is LOADING a generation call of the
\* session is in flight, also in a session restored from a snapshot that
\* the auto-save tick wrote while a call was pending.
C34_LoadingHasCallInFlight == appState = "LOADING" => calls # <<>>

\* the paths of the locators of a record
LocatorsOf(design) ==
  {img.p : img \in {a \in {design.originalImage, design.generatedImage}
                           \cup {design.iterations[k].image :
                                   k \in DOMAIN design.iterations} :
                       a.k = "url"}}

\* C35 as stated: an object that leaves the bucket is referenced by no
\* record of the collection other than the record of the lineage whose
\* folder it is in: the delete of one lineage removes no artifact that
\* another stored lineage references.
C35_DeleteKeepsSharedArtifacts ==
  [][\A path \in DOMAIN storage \ DOMAIN storage' :
       \A x \in DOMAIN db : path \in LocatorsOf(db[x]) => x = path.d]_vars

\* C36 as stated: when a generation call completes with a result, the
\* input of the call is the imagePreview of the session and its
\* instruction the prompt of the session, also when load, edit, reset or
\* clear-image came in while the call was pending.
C36_ResultOfCurrentInput ==
  [][\A i \in DOMAIN calls, r \in Results :
       (\E ok \in BOOLEAN : GenerationSucceeds(i, r, ok))
         => /\ generatedImage' = Inline(r)
            /\ calls[i].input = imagePreview'
            /\ calls[i].prompt = prompt']_vars

\* C37 as stated: while the session is pristine, an empty draft slot stays
\* empty: no write issued before a reset puts a snapshot back after it.
C37_SlotStaysEmptyWhilePristine ==
  [][(draft = <<>> /\ Pristine /\ Pristine') => draft' = <<>>]_vars

\* C38 as stated: appState SUCCESS implies a non-null generatedImage, and
\* appState IDLE implies a null generatedImage.
C38_ResultIffSucceeded ==
  /\ appState = "SUCCESS" => generatedImage # Null
  /\ appState = "IDLE" => generatedImage = Null

(***************************************************************************)
(* Properties of the ids of saved records (SpecSave).                      *)
(***************************************************************************)
\* C39: a save takes an id that no record of the collection and no card of
\* the gallery has, also for a session loaded or edited from a card, and
\* the step that writes its record leaves every record that was in the
\* collection as it was and adds exactly one.
C39_SaveAddsOneFreshRecord ==
  [][/\ PromoteStarted
          => /\ save'[1].design.id \notin DOMAIN db
             /\ \A k \in DOMAIN savedDesigns :
                  savedDesigns[k].id # save'[1].design.id
     /\ \A ok \in BOOLEAN :
          SaveSetDoc(ok)
            => IF ok
               THEN /\ save[1].design.id \notin DOMAIN db
                    /\ DOMAIN db' = DOMAIN db \cup {save[1].design.id}
                    /\ Cardinality(DOMAIN db') = Cardinality(DOMAIN db) + 1
                    /\ \A x \in DOMAIN db : db'[x] = db[x]
               ELSE db' = db
     /\ db' # db => \E ok \in BOOLEAN : SaveSetDoc(ok)]_vars

\* a session edited from the card of the earlier lineage was saved with a
\* new result: the earlier record is as it was, next to the new one
C39_EditedSessionSavedAsNew ==
  /\ db[4] = EarlierDesign
  /\ \E id \in DOMAIN db \ {4} :
       /\ db[id].originalImage = EarlierDesign.originalImage
       /\ db[id].generatedImage = Url(Path("u1", id, "generated", 0))
       /\ Len(db[id].iterations) > 1
       /\ db[id].iterations[1] = EarlierDesign.iterations[1]

=============================================================================
